---- MODULE Spec2Model ----
(***************************************************************************)
(* State-machine model of the webhook capture server (src/server.js):      *)
(* the path-directive parser, the endpoint dispatcher, the two forwarding  *)
(* functions and the request store (MongoDB or one JSON file per id).      *)
(*                                                                         *)
(* Strings the code inspects character by character (paths, URLs, tags)    *)
(* are sequences of one-character strings.  A JavaScript value that may be *)
(* null is None (the empty tuple) or Some(v) (the one-element tuple).      *)
(***************************************************************************)
EXTENDS Integers, Sequences, FiniteSets, TLC

None == << >>
Some(v) == << v >>
Val(o) == o[1]

(***************************************************************************)
(* Characters and literals of the path grammar.                            *)
(***************************************************************************)
Digits == {"0", "1", "2", "3", "4", "5", "6", "7", "8", "9"}
Letters ==
  {"a", "b", "c", "d", "e", "f", "g", "h", "i", "j", "k", "l", "m",
   "n", "o", "p", "q", "r", "s", "t", "u", "v", "w", "x", "y", "z",
   "A", "B", "C", "D", "E", "F", "G", "H", "I", "J", "K", "L", "M",
   "N", "O", "P", "Q", "R", "S", "T", "U", "V", "W", "X", "Y", "Z"}
\* [a-zA-Z0-9_-], the characters sanitizeId keeps
IdChars == Letters \cup Digits \cup {"_", "-"}
\* \s of the legacy fwd: pattern
SpaceChars == {" "}

L_webhook == <<"/", "w", "e", "b", "h", "o", "o", "k", "/">>
L_res == <<"r", "e", "s", ":">>
L_fullbody == <<"f", "u", "l", "l", "b", "o", "d", "y", ":", "t", "r", "u", "e">>
L_tag == <<"t", "a", "g", ":">>
L_fwd == <<"f", "w", "d", ":">>
L_dollars == <<"$", "$">>
L_http == <<"h", "t", "t", "p">>
L_https == <<"h", "t", "t", "p", "s">>
\* the alternation plain|json|html
TypeWords ==
  [plain |-> <<"p", "l", "a", "i", "n">>,
   json |-> <<"j", "s", "o", "n">>,
   html |-> <<"h", "t", "m", "l">>]

Min(S) == CHOOSE x \in S : \A y \in S : x <= y

\* pat occurs in s at index i
HasAt(s, i, pat) ==
  /\ i >= 1
  /\ i + Len(pat) - 1 <= Len(s)
  /\ SubSeq(s, i, i + Len(pat) - 1) = pat

\* s from index i to its end
From(s, i) == SubSeq(s, i, Len(s))

\* (^|\/) immediately before index k
SegStart(s, k) == k = 1 \/ (k > 1 /\ k <= Len(s) + 1 /\ s[k - 1] = "/")

\* (?=\/|$) at index j
SegEnd(s, j) == j = Len(s) + 1 \/ (j <= Len(s) /\ s[j] = "/")

\* parseInt with a leading 0 read as the mark of an octal number
parseInt_Octal(d) ==
  LET dv(c) == CHOOSE n \in 0..9 :
                 <<"0", "1", "2", "3", "4", "5", "6", "7", "8", "9">>[n + 1] = c
      base == IF d[1] = "0" THEN 8 ELSE 10
      RECURSIVE go(_, _)
      go(i, acc) == IF i > Len(d) \/ dv(d[i]) >= base THEN acc
                    ELSE go(i + 1, acc * base + dv(d[i]))
  IN go(1, 0)

\* parseInt(d, 10) of a run of decimal digits
parseInt(d) ==
  LET dv(c) == CHOOSE n \in 0..9 :
                 <<"0", "1", "2", "3", "4", "5", "6", "7", "8", "9">>[n + 1] = c
      RECURSIVE go(_, _)
      go(i, acc) == IF i > Len(d) THEN acc ELSE go(i + 1, acc * 10 + dv(d[i]))
  IN go(1, 0)

\* the index just after the maximal run, starting at i, of characters not in stop
RunEnd(s, i, stop) ==
  Min({j \in i..(Len(s) + 1) : j = Len(s) + 1 \/ s[j] \in stop})

\* res:\d{3}(?:plain|json|html) at index k: the type word matched, or None
ResWordAt(s, k) ==
  IF /\ HasAt(s, k, L_res)
     /\ k + 6 <= Len(s)
     /\ \A i \in (k + 4)..(k + 6) : s[i] \in Digits
     /\ \E t \in DOMAIN TypeWords : HasAt(s, k + 7, TypeWords[t])
  THEN Some(CHOOSE t \in DOMAIN TypeWords : HasAt(s, k + 7, TypeWords[t]))
  ELSE None


\* the least k among the candidates where a directive `word` begins a segment
FirstSeg(s, word, candidates) ==
  LET ks == {k \in candidates : SegStart(s, k) /\ HasAt(s, k, word)}
  IN IF ks = {} THEN None ELSE Some(Min(ks))

\* sanitizeId that keeps the dot besides [a-zA-Z0-9_-]
sanitizeId_KeepsDots(id) ==
  IF id = << >> THEN None
  ELSE LET sanitized == SelectSeq(id, LAMBDA c : c \in IdChars \cup {"."})
       IN IF sanitized = << >> THEN None ELSE Some(sanitized)

sanitizeId(id) ==
  IF id = << >> THEN None
  ELSE LET sanitized == SelectSeq(id, LAMBDA c : c \in IdChars)
       IN IF sanitized = << >> THEN None ELSE Some(sanitized)

(***************************************************************************)
(* webhookFilePath: path.join(storageDir, `${id}.json`).  A path is the    *)
(* sequence of its segments; path.join splits at the slashes, drops empty  *)
(* and '.' segments and lets a '..' segment remove the segment before it.  *)
(***************************************************************************)
storageDir == <<<<"s", "t", "o", "r", "a", "g", "e">>>>

L_json == <<".", "j", "s", "o", "n">>

RECURSIVE PathJoin(_, _, _)
\* segs: the normalised segments so far, cur: the segment being read
PathJoin(segs, cur, rest) ==
  IF rest # << >> /\ Head(rest) # "/"
  THEN PathJoin(segs, Append(cur, Head(rest)), Tail(rest))
  ELSE LET joined == IF cur = << >> \/ cur = <<".">> THEN segs
                     ELSE IF cur = <<".", ".">>
                     THEN IF segs = << >> THEN <<cur>> ELSE SubSeq(segs, 1, Len(segs) - 1)
                     ELSE Append(segs, cur)
       IN IF rest = << >> THEN joined ELSE PathJoin(joined, << >>, Tail(rest))

webhookFilePath(id) == PathJoin(storageDir, << >>, id \o L_json)

(***************************************************************************)
(* new URL(u).protocol without the colon, or None when the constructor     *)
(* throws: a scheme [A-Za-z][A-Za-z0-9+.-]* before the first ':' is        *)
(* required, and an http, https, ws, wss or ftp URL needs a non-empty host *)
(* without forbidden host characters and a numeric port.                   *)
(***************************************************************************)
\* the scheme in lower case
UrlScheme(u, i) ==
  LET upper == <<"A", "B", "C", "D", "E", "F", "G", "H", "I", "J", "K", "L", "M",
                 "N", "O", "P", "Q", "R", "S", "T", "U", "V", "W", "X", "Y", "Z">>
      lowerc == <<"a", "b", "c", "d", "e", "f", "g", "h", "i", "j", "k", "l", "m",
                  "n", "o", "p", "q", "r", "s", "t", "u", "v", "w", "x", "y", "z">>
  IN [n \in 1..(i - 1) |-> IF \E m \in 1..26 : upper[m] = u[n]
                           THEN lowerc[CHOOSE m \in 1..26 : upper[m] = u[n]]
                           ELSE u[n]]

\* the authority of what follows the scheme's colon: after the leading
\* slashes, up to the path, query or fragment
UrlAuthority(rest) ==
  LET hostStart == Min({j \in 1..(Len(rest) + 1) :
                          j = Len(rest) + 1 \/ rest[j] \notin {"/", "\\"}})
  IN SubSeq(rest, hostStart, RunEnd(rest, hostStart, {"/", "\\", "?", "#"}) - 1)

\* the authority without its userinfo: what follows the last '@'
UrlHostPort(auth) ==
  LET ats == {n \in 1..Len(auth) : auth[n] = "@"}
  IN IF ats = {} THEN auth
     ELSE From(auth, (CHOOSE n \in ats : \A m \in ats : m <= n) + 1)

\* the host is not empty and without forbidden characters, the port numeric
UrlHostAccepted(hostport) ==
  LET hostEnd == RunEnd(hostport, 1, {":"})
  IN /\ hostEnd > 1
     /\ \A n \in 1..(hostEnd - 1) :
          hostport[n] \notin {" ", "#", "<", ">", "?", "@", "[", "]", "^", "|", "%"}
     /\ \A n \in (hostEnd + 1)..Len(hostport) : hostport[n] \in Digits

\* u with its first colon at index i
UrlProtocolAt(u, i, scheme) ==
  IF \/ i = 1
     \/ u[1] \notin Letters
     \/ \E n \in 2..(i - 1) : u[n] \notin Letters \cup Digits \cup {"+", "-", "."}
  THEN None
  ELSE IF scheme \notin {<<"h", "t", "t", "p">>, <<"h", "t", "t", "p", "s">>,
                         <<"w", "s">>, <<"w", "s", "s">>, <<"f", "t", "p">>}
  THEN Some(scheme)
  ELSE IF UrlHostAccepted(UrlHostPort(UrlAuthority(From(u, i + 1))))
  THEN Some(scheme)
  ELSE None

UrlFirstColon(u, colons) ==
  IF colons = {} THEN None ELSE UrlProtocolAt(u, Min(colons), UrlScheme(u, Min(colons)))

UrlProtocol(u) == UrlFirstColon(u, {i \in 1..Len(u) : u[i] = ":"})

\* the branches on url.protocol and the catch of new URL
checkProtocol(forwardUrl, protocol) ==
  IF protocol = None
  THEN [forwardUrl |-> None,
        error |-> Some([msg |-> "Invalid forward URL", arg |-> forwardUrl])]
  ELSE IF Val(protocol) \in {L_http, L_https}
  THEN [forwardUrl |-> Some(forwardUrl), error |-> None]
  ELSE [forwardUrl |-> None,
        error |-> Some([msg |-> "Invalid forward URL protocol", arg |-> forwardUrl])]

\* the try/catch around new URL: the forwardUrl and error the parser assigns
checkForwardUrl(forwardUrl) == checkProtocol(forwardUrl, UrlProtocol(forwardUrl))


(***************************************************************************)
(* decodeURIComponent: a '%' must be followed by two hex digits; a byte    *)
(* below 0x80 is one character, a UTF-8 lead byte needs its continuation   *)
(* bytes, each escaped.  The result is Some(decoded) or None when the      *)
(* function throws URIError.  A decoded printable ASCII byte is its        *)
(* character (the grave accent is the token "grave"), any other decoded    *)
(* character is the token "U+".                                            *)
(***************************************************************************)
decodeURIComponent(v) ==
  LET hexd == <<"0", "1", "2", "3", "4", "5", "6", "7", "8", "9",
                "a", "b", "c", "d", "e", "f", "A", "B", "C", "D", "E", "F">>
      hv(c) == LET n == CHOOSE n \in 1..22 : hexd[n] = c
               IN IF n <= 16 THEN n - 1 ELSE n - 7
      ishex(c) == \E n \in 1..22 : hexd[n] = c
      ascii == <<" ", "!", "\"", "#", "$", "%", "&", "'", "(", ")", "*", "+", ",",
                 "-", ".", "/", "0", "1", "2", "3", "4", "5", "6", "7", "8", "9",
                 ":", ";", "<", "=", ">", "?", "@", "A", "B", "C", "D", "E", "F",
                 "G", "H", "I", "J", "K", "L", "M", "N", "O", "P", "Q", "R", "S",
                 "T", "U", "V", "W", "X", "Y", "Z", "[", "\\", "]", "^", "_", "grave",
                 "a", "b", "c", "d", "e", "f", "g", "h", "i", "j", "k", "l", "m",
                 "n", "o", "p", "q", "r", "s", "t", "u", "v", "w", "x", "y", "z",
                 "{", "|", "}", "~">>
      esc(i) == i + 2 <= Len(v) /\ v[i] = "%" /\ ishex(v[i + 1]) /\ ishex(v[i + 2])
      byte(i) == 16 * hv(v[i + 1]) + hv(v[i + 2])
      cont(i) == esc(i) /\ byte(i) >= 128 /\ byte(i) <= 191
      need(b) == IF b >= 194 /\ b <= 223 THEN 1
                 ELSE IF b >= 224 /\ b <= 239 THEN 2
                 ELSE IF b >= 240 /\ b <= 244 THEN 3 ELSE 0
      RECURSIVE go(_, _)
      go(i, acc) ==
        IF i > Len(v) THEN Some(acc)
        ELSE IF v[i] # "%" THEN go(i + 1, Append(acc, v[i]))
        ELSE IF ~esc(i) THEN None
        ELSE IF byte(i) < 128
        THEN go(i + 3, Append(acc, IF byte(i) >= 32 /\ byte(i) <= 126
                                   THEN ascii[byte(i) - 31] ELSE "U+"))
        ELSE IF need(byte(i)) = 0 THEN None
        ELSE IF \A n \in 1..need(byte(i)) : cont(i + 3 * n)
        THEN go(i + 3 * (need(byte(i)) + 1), Append(acc, "U+"))
        ELSE None
  IN go(1, << >>)


(***************************************************************************)
(* parseWebhookPath, clause by clause.  ps is paramString.                 *)
(***************************************************************************)
\* resParamMatch with a range check on the status that guards the
\* assignment of responseStatus only
resParamMatch_StatusChecked(ps, k, resParam, type) ==
  IF /\ \A i \in 1..3 : resParam[i] \in Digits
     /\ From(resParam, 4) = TypeWords[type]
  THEN [responseStatus |-> IF parseInt(SubSeq(resParam, 1, 3)) \in 100..599
                           THEN Some(parseInt(SubSeq(resParam, 1, 3))) ELSE None,
        responseType |-> Some(type), error |-> None]
  ELSE [responseStatus |-> None, responseType |-> None,
        error |-> Some([msg |-> "Invalid res parameter format",
                        arg |-> SubSeq(ps, k, k + 3 + Len(resParam))])]

\* the second match, on resParam = the segment without 'res:'
resParamMatch(ps, k, resParam, type) ==
  IF /\ \A i \in 1..3 : resParam[i] \in Digits
     /\ From(resParam, 4) = TypeWords[type]
  THEN [responseStatus |-> Some(parseInt(SubSeq(resParam, 1, 3))),
        responseType |-> Some(type), error |-> None]
  ELSE [responseStatus |-> None, responseType |-> None,
        error |-> Some([msg |-> "Invalid res parameter format",
                        arg |-> SubSeq(ps, k, k + 3 + Len(resParam))])]

\* resMatch at index k with the type word matched
resMatch(ps, k, type) ==
  resParamMatch(ps, k, SubSeq(ps, k + 4, k + 6 + Len(TypeWords[type])), type)

resMatchAt(ps, k) ==
  IF k = None
  THEN [responseStatus |-> None, responseType |-> None, error |-> None]
  ELSE resMatch(ps, Val(k), Val(ResWordAt(ps, Val(k))))

\* the end of res:\d{3}(?:plain|json|html) at index i, 0 when it is not there
ResWordEnd(s, i, word) == IF word = None THEN 0 ELSE i + 7 + Len(TypeWords[Val(word)])

\* resClause with the expression anchored at the start of paramString only:
\* a res: segment behind another segment is not found
resClause_FirstSegmentOnly(ps) ==
  resMatchAt(ps, FirstSeg(ps, L_res,
                   {i \in 1..1 : /\ ResWordAt(ps, i) # None
                                 /\ SegEnd(ps, ResWordEnd(ps, i, ResWordAt(ps, i)))}))

\* /(^|\/)(res:\d{3}(?:plain|json|html))(?=\/|$)/ and the second match on it
resClause(ps) ==
  resMatchAt(ps, FirstSeg(ps, L_res,
                   {i \in 1..Len(ps) : /\ ResWordAt(ps, i) # None
                                       /\ SegEnd(ps, ResWordEnd(ps, i, ResWordAt(ps, i)))}))

\* /(^|\/)fullbody:true(?=\/|$)/
fullBodyClause(ps) ==
  FirstSeg(ps, L_fullbody, {i \in 1..Len(ps) : SegEnd(ps, i + Len(L_fullbody))}) # None

\* tagMatch at index k: decodeURIComponent(tagMatch[2]), None when it throws
tagMatchAt(ps, k) ==
  IF k = None THEN None
  ELSE Some(decodeURIComponent(
              SubSeq(ps, Val(k) + 4, RunEnd(ps, Val(k) + 4, {"/"}) - 1)))

\* /(^|\/)tag:([^\/]+)(?=\/|$)/: None when absent, else the result of
\* decodeURIComponent (itself None when it throws)
tagClause(ps) ==
  tagMatchAt(ps, FirstSeg(ps, L_tag,
                   {i \in 1..Len(ps) : i + 4 <= Len(ps) /\ ps[i + 4] # "/"}))

\* the closing delimiters of a bounded forward segment opened at index i
fwdBoundedCloses(ps, i) == {j \in (i + 6)..Len(ps) : HasAt(ps, j, L_dollars)}

fwdBoundedMatchAt(ps, k) ==
  IF k = None THEN None
  ELSE Some(SubSeq(ps, Val(k) + 6, Min(fwdBoundedCloses(ps, Val(k))) - 1))

\* /(^|\/)fwd:\$\$(.*?)\$\$/: the text between the delimiters, or None
fwdBoundedMatch(ps) ==
  fwdBoundedMatchAt(ps, FirstSeg(ps, L_fwd,
                          {i \in 1..Len(ps) : /\ HasAt(ps, i + 4, L_dollars)
                                              /\ fwdBoundedCloses(ps, i) # {}}))

\* where the text after https?:\/\/ begins for fwd: at index i, 0 when the
\* scheme is not there
fwdLegacyUrlBody(ps, i) ==
  IF HasAt(ps, i + 4, L_https \o <<":", "/", "/">>) THEN i + 12
  ELSE IF HasAt(ps, i + 4, L_http \o <<":", "/", "/">>) THEN i + 11
  ELSE 0

\* /\/(res:\d{3}(?:plain|json|html)|fullbody:true|tag:[^\/]+)/ on
\* remainingString: forwardUrl is cut at the first match
fwdLegacyCut(remainingString, nexts) ==
  IF nexts # {} THEN SubSeq(remainingString, 1, Min(nexts) - 1) ELSE remainingString

fwdLegacyRemaining(remainingString) ==
  fwdLegacyCut(remainingString,
    {m \in 1..Len(remainingString) :
       /\ remainingString[m] = "/"
       /\ \/ ResWordAt(remainingString, m + 1) # None
          \/ HasAt(remainingString, m + 1, L_fullbody)
          \/ /\ HasAt(remainingString, m + 1, L_tag)
             /\ m + 5 <= Len(remainingString)
             /\ remainingString[m + 5] # "/"})

\* fwdStart, fwdValueStart and remainingString from fwdMatch[0] and fwdMatch[2]
fwdLegacyValue(ps, match0, match2) ==
  fwdLegacyRemaining(
    From(ps, Min({i \in 1..Len(ps) : HasAt(ps, i, match0)}) + Len(match0) - Len(match2)))

\* fwdMatch at index k, the match ending at matchEnd
fwdLegacyMatchEnd(ps, k, matchEnd) ==
  fwdLegacyValue(ps, SubSeq(ps, IF k = 1 THEN 1 ELSE k - 1, matchEnd),
                 SubSeq(ps, k + 4, matchEnd))

fwdLegacyMatchAt(ps, k) ==
  IF k = None THEN None
  ELSE Some(fwdLegacyMatchEnd(ps, Val(k),
              RunEnd(ps, fwdLegacyUrlBody(ps, Val(k)), SpaceChars) - 1))

\* /(^|\/)fwd:(https?:\/\/[^\s]+)/ and the cut at the next known parameter
fwdLegacyMatch(ps) ==
  fwdLegacyMatchAt(ps, FirstSeg(ps, L_fwd,
                         {i \in 1..Len(ps) :
                            /\ fwdLegacyUrlBody(ps, i) # 0
                            /\ fwdLegacyUrlBody(ps, i) <= Len(ps)
                            /\ ps[fwdLegacyUrlBody(ps, i)] \notin SpaceChars}))

\* the forward URL candidate: the bounded match, else the legacy one
fwdCandidate(bounded, legacy) == IF bounded # None THEN bounded ELSE legacy

fwdChecked(candidate) ==
  IF candidate = None THEN [forwardUrl |-> None, error |-> None]
  ELSE checkForwardUrl(Val(candidate))

\* the bounded form first, the legacy form as the fallback
fwdClause(ps) == fwdChecked(fwdCandidate(fwdBoundedMatch(ps), fwdLegacyMatch(ps)))

\* the early returns { id: null, error }
parseEarlyReturn(msg) ==
  [id |-> None, responseStatus |-> None, responseType |-> None,
   forwardUrl |-> None, fullBody |-> FALSE, tag |-> None,
   error |-> Some([msg |-> msg, arg |-> << >>]), threw |-> FALSE]

\* result once every clause has been looked for; threw is TRUE when
\* decodeURIComponent raised URIError, which leaves parseWebhookPath without
\* a return value
parseResult(id, res, fullBody, tag, fwd) ==
  IF tag # None /\ Val(tag) = None
  THEN [id |-> id, responseStatus |-> res.responseStatus,
        responseType |-> res.responseType, forwardUrl |-> None,
        fullBody |-> fullBody, tag |-> None,
        error |-> res.error, threw |-> TRUE]
  ELSE [id |-> id, responseStatus |-> res.responseStatus,
        responseType |-> res.responseType, forwardUrl |-> fwd.forwardUrl,
        fullBody |-> fullBody,
        tag |-> IF tag = None THEN None ELSE Val(tag),
        error |-> IF fwd.error # None THEN fwd.error ELSE res.error,
        threw |-> FALSE]

\* parseWebhookPath from the check of id on
parseParams(id, paramString) ==
  IF id = None THEN parseEarlyReturn("Invalid webhook ID")
  ELSE IF paramString = << >>
  THEN [id |-> id, responseStatus |-> None, responseType |-> None,
        forwardUrl |-> None, fullBody |-> FALSE, tag |-> None, error |-> None,
        threw |-> FALSE]
  ELSE parseResult(id, resClause(paramString), fullBodyClause(paramString),
                   tagClause(paramString), fwdClause(paramString))

\* id and paramString: cleanPath split at its first slash
parseCleanPath(cleanPath, slashes) ==
  IF cleanPath = << >> THEN parseEarlyReturn("Missing webhook ID")
  ELSE IF slashes = {} THEN parseParams(sanitizeId(cleanPath), << >>)
  ELSE parseParams(sanitizeId(SubSeq(cleanPath, 1, Min(slashes) - 1)),
                   From(cleanPath, Min(slashes) + 1))

parseFirstSlash(cleanPath) ==
  parseCleanPath(cleanPath, {i \in 1..Len(cleanPath) : cleanPath[i] = "/"})

\* the directive set of a path
parseWebhookPath(path) ==
  parseFirstSlash(IF HasAt(path, 1, L_webhook) THEN From(path, Len(L_webhook) + 1)
                  ELSE path)


(***************************************************************************)
(* The server.  One handler invocation per inbound request r; each await   *)
(* of the code ends an action, so that other requests interleave exactly   *)
(* where the event loop lets them.                                         *)
(***************************************************************************)
\* inbound requests of one run
NumReq == 2
Rids == 1..NumReq

P_id == L_webhook \o <<"a">>
P_url == <<"h", "t", "t", "p", ":", "/", "/", "u">>
P_res == <<"/">> \o L_res \o <<"4", "0", "4">> \o TypeWords.html
P_fwd == <<"/">> \o L_fwd \o L_dollars \o P_url \o L_dollars
P_res099 == <<"/">> \o L_res \o <<"0", "9", "9">> \o TypeWords.json
\* the request paths (req.params[0] behind '/webhook/') the handler is run on
Paths ==
  {P_id,
   P_id \o P_res,
   P_id \o P_fwd,
   P_id \o P_res \o P_fwd,
   P_id \o P_res099,
   P_id \o P_res099 \o P_fwd,
   P_id \o <<"/">> \o L_fwd \o L_dollars \o <<"f", "t", "p", ":", "/", "/", "u">>
        \o L_dollars,
   P_id \o <<"/">> \o L_tag \o <<"%">>}
Methods == {"POST"}
Bodies == {<<"x", "y">>}

\* req.headers of an ordinary client: header names (in lower case, as Node
\* delivers them) to values
DefaultHeaders ==
  [n \in {"host", "connection", "content-type"} |->
     IF n = "host" THEN "h" ELSE IF n = "connection" THEN "close" ELSE "text/plain"]

\* what one axios call can end in: an HTTP response (data is the length of
\* its body), or no response at all
UpstreamOutcomes ==
  {[kind |-> "http", status |-> 200, contentType |-> "text/plain", data |-> 5],
   [kind |-> "http", status |-> 404, contentType |-> "text/plain", data |-> 5],
   [kind |-> "error", status |-> 0, contentType |-> "", data |-> 0],
   [kind |-> "timeout", status |-> 0, contentType |-> "", data |-> 0]}

\* the endpoint ids the paths name
WebhookIds ==
  {Val(result.id) :
     result \in {x \in {parseWebhookPath(p) : p \in Paths} : x.id # None}}

\* the ids generateId() gives: a small space, so that two calls can collide
GeneratedIds == {<<"a">>, <<"b">>}

\* the ids a storage file or a document can have
StoreIds == WebhookIds \cup GeneratedIds

\* the POST /webhooks requests of a run
NumCreate == 2
Creations == 1..NumCreate

\* the runs of the legacy PHP handler for one endpoint
NumPhp == 3
PhpRequests == 1..NumPhp
\* the destination urls.json has for the endpoint: none, or a URL
PhpDestinations == {"", "http://u"}
\* the status urls.json has for the endpoint
PhpStatuses == {200, 404}
\* what curl_exec and CURLINFO_HTTP_CODE give
CurlOutcomes ==
  {[ok |-> FALSE, respCode |-> 0], [ok |-> TRUE, respCode |-> 200],
   [ok |-> TRUE, respCode |-> 500]}

VARIABLES
  requestLog,      \* storage/requests_<id>.jsonl of the PHP handler: its lines
  php,             \* where each run of the PHP handler is: [pc, entry, http_response_code]
  webhookDocs,     \* the Webhook collection of MongoDB: the ids of its documents
  creation,        \* where each POST /webhooks is: [pc, id, tries]
  deletion,        \* where the DELETE /webhooks/:id is: [pc, parsed]
  ioRaises,        \* io.to(room).emit(...) throws
  mongoState,      \* the mongoose.connect promise: "connecting", "connected", "failed"
  mongoConnected,  \* the flag of the same name
  requestDocs,     \* the Request collection of MongoDB
  files,           \* storage/<id>.json: [webhook, requests] by id
  pc,              \* where the handler of request r is
  fpc,             \* where the forwarding function of request r is
  req,             \* the inbound request of r
  parsedPath,      \* parseWebhookPath's result for r
  requestEntry,    \* the handler's requestEntry
  parsed,          \* the file content a store function of r has read
  todo,            \* the files updateRequest of r still has to scan
  upstream,        \* how the axios call of r settled, None before that
  updateData,      \* the arguments of every updateRequest call of r
  sent,            \* the responses written to res of r, in order
  emitted,         \* the app.emitRequestEvent calls made for r, in order
  saved,           \* how the saveRequest call of r ended: "no", "returned", "threw"
  axiosCalls       \* the number of axios calls issued for r

vars == <<requestLog, php, webhookDocs, creation, deletion, ioRaises, mongoState, mongoConnected, requestDocs, files, pc, fpc, req, parsedPath,
          requestEntry, parsed, todo, upstream, updateData, sent, emitted, saved,
          axiosCalls>>

\* the state of the legacy PHP handler
phpVars == <<requestLog, php>>

storeVars == <<mongoState, mongoConnected, requestDocs, files>>

\* the state of the endpoint management routes
adminVars == <<webhookDocs, creation, deletion>>

\* the state after construction, io.to(room).emit raising or not
InitWith(raising) ==
  /\ ioRaises \in raising
  /\ requestLog = << >>
  /\ php = [n \in PhpRequests |-> [pc |-> "idle", entry |-> None, http_response_code |-> 0]]
  /\ webhookDocs = {}
  /\ creation = [c \in Creations |-> [pc |-> "idle", id |-> None, tries |-> 0]]
  /\ deletion = [pc |-> "idle", parsed |-> None]
  /\ mongoState = "connecting"
  /\ mongoConnected = FALSE
  /\ requestDocs = {}
  /\ files = [id \in StoreIds |-> None]
  /\ pc = [r \in Rids |-> "idle"]
  /\ fpc = [r \in Rids |-> "none"]
  /\ req = [r \in Rids |-> None]
  /\ parsedPath = [r \in Rids |-> None]
  /\ requestEntry = [r \in Rids |-> None]
  /\ parsed = [r \in Rids |-> None]
  /\ todo = [r \in Rids |-> << >>]
  /\ upstream = [r \in Rids |-> None]
  /\ updateData = [r \in Rids |-> << >>]
  /\ sent = [r \in Rids |-> << >>]
  /\ emitted = [r \in Rids |-> << >>]
  /\ saved = [r \in Rids |-> "no"]
  /\ axiosCalls = [r \in Rids |-> 0]

Init == InitWith({FALSE})

\* mongoose.connect(...).then: the connection is up
MongoConnect ==
  /\ mongoState = "connecting"
  /\ mongoState' = "connected"
  /\ mongoConnected' = TRUE
  /\ UNCHANGED <<phpVars, adminVars, ioRaises, requestDocs, files, pc, fpc, req, parsedPath, requestEntry, parsed,
                 todo, upstream, updateData, sent, emitted, saved, axiosCalls>>

\* mongoose.connect(...).catch: file storage is used
MongoConnectFailed ==
  /\ mongoState = "connecting"
  /\ mongoState' = "failed"
  /\ mongoConnected' = FALSE
  /\ UNCHANGED <<phpVars, adminVars, ioRaises, requestDocs, files, pc, fpc, req, parsedPath, requestEntry, parsed,
                 todo, upstream, updateData, sent, emitted, saved, axiosCalls>>


\* res.status(status) followed by res.json / res.send: a status code below
\* 100 is refused with an exception before anything is written
StatusCodeAccepted(status) == status >= 100

\* the body and content type sendImmediateResponse writes for (status, type)
sendImmediateResponse(status, type, data) ==
  [status |-> status,
   kind |-> "immediate",
   contentType |-> IF type = "json" THEN "application/json"
                   ELSE IF type = "html" THEN "text/html" ELSE "text/plain",
   body |-> [id |-> data.id, method |-> data.method, status |-> status,
             bytes |-> Len(data.rawBody)]]

\* an error message without interpolated text
Msg(m) == [msg |-> m, arg |-> << >>]

\* the JSON error bodies of the handler and of forwardRequestAndRespond
JsonError(status, error, message) ==
  [status |-> status, kind |-> "error", contentType |-> "application/json",
   body |-> [ok |-> FALSE, error |-> error, message |-> message, status |-> status]]

\* the handler's catch block: 500 with the exception's message
InternalError(r, message) ==
  sent' = [sent EXCEPT ![r] = Append(@, JsonError(500, "Internal Server Error", message))]

\* a call of app.emitRequestEvent(webhook_id, eventName, payload).  Every call
\* site wraps it in a try/catch with an empty catch: a call that raises goes on
\* as one that returns
Emit(ev, r, eventName, payload) ==
  [ev EXCEPT ![r] = Append(@, [room |-> requestEntry[r].webhook_id,
                               event |-> eventName, payload |-> payload,
                               raised |-> ioRaises])]

hasResponseParams(r) ==
  parsedPath[r].responseStatus # None /\ parsedPath[r].responseType # None
hasForwardParams(r) == parsedPath[r].forwardUrl # None

\* the object literal requestEntry of the handler, rid being uuidv4()
NewRequestEntry(r, p, q) ==
  [webhook_id |-> Val(p.id),
   rid |-> r,
   method |-> q.method,
   headers |-> q.headers,
   body |-> q.rawBody,
   response_status |-> IF p.responseStatus # None /\ p.responseType # None
                       THEN Val(p.responseStatus) ELSE 200,
   parsed_response_status |-> p.responseStatus,
   parsed_response_type |-> p.responseType,
   parsed_forward_url |-> p.forwardUrl,
   full_body |-> p.fullBody,
   tag |-> p.tag,
   forward_response_status |-> None,
   forward_response_headers |-> None,
   forward_response_body |-> None]

\* Receive with the `return` of the 400 answer left out: the handler goes on
Receive_NoReturn(r) ==
  /\ pc[r] = "idle"
  /\ IF r = 1 THEN TRUE ELSE pc[r - 1] # "idle"
  /\ \E path \in Paths, method \in Methods, rawBody \in Bodies :
       LET p == parseWebhookPath(path)
       IN /\ req' = [req EXCEPT ![r] = [path |-> path, method |-> method,
                                        rawBody |-> rawBody,
                                        headers |-> DefaultHeaders]]
          /\ parsedPath' = [parsedPath EXCEPT ![r] = p]
          /\ IF p.threw
             THEN /\ InternalError(r, Msg("URI malformed"))
                  /\ pc' = [pc EXCEPT ![r] = "done"]
             ELSE IF p.id = None
             THEN /\ sent' = [sent EXCEPT ![r] =
                       Append(@, JsonError(400, "Invalid webhook URL", Val(p.error)))]
                  /\ pc' = [pc EXCEPT ![r] = "done"]
             ELSE IF p.error # None
             THEN /\ sent' = [sent EXCEPT ![r] =
                       Append(@, JsonError(400, "Invalid webhook URL", Val(p.error)))]
                  /\ pc' = [pc EXCEPT ![r] = "findWebhookById"]
             ELSE /\ sent' = sent
                  /\ pc' = [pc EXCEPT ![r] = "findWebhookById"]
  /\ UNCHANGED <<phpVars, adminVars, ioRaises, storeVars, fpc, requestEntry, parsed, todo, upstream, updateData,
                 emitted, saved, axiosCalls>>

(***************************************************************************)
(* app.all(/^\/webhook\/(.+)/): entry of the handler up to the first       *)
(* await.  A parser error is answered 400 and the handler returns; an      *)
(* exception of the parser reaches the handler's catch block.  The request *)
(* is one with its path in `paths`.                                        *)
(***************************************************************************)
ReceiveWith(r, paths, headerObjects) ==
  /\ pc[r] = "idle"
  /\ IF r = 1 THEN TRUE ELSE pc[r - 1] # "idle"
  /\ \E path \in paths, method \in Methods, rawBody \in Bodies,
        headers \in headerObjects :
       LET p == parseWebhookPath(path)
       IN /\ req' = [req EXCEPT ![r] = [path |-> path, method |-> method,
                                        rawBody |-> rawBody, headers |-> headers]]
          /\ parsedPath' = [parsedPath EXCEPT ![r] = p]
          /\ IF p.threw
             THEN /\ InternalError(r, Msg("URI malformed"))
                  /\ pc' = [pc EXCEPT ![r] = "done"]
             ELSE IF p.error # None \/ p.id = None
             THEN /\ sent' = [sent EXCEPT ![r] =
                       Append(@, JsonError(400, "Invalid webhook URL", Val(p.error)))]
                  /\ pc' = [pc EXCEPT ![r] = "done"]
             ELSE /\ sent' = sent
                  /\ pc' = [pc EXCEPT ![r] = "findWebhookById"]
  /\ UNCHANGED <<phpVars, adminVars, ioRaises, storeVars, fpc, requestEntry, parsed, todo, upstream, updateData,
                 emitted, saved, axiosCalls>>

\* the handler's entry for requests with the headers of an ordinary client
ReceiveFrom(r, paths) == ReceiveWith(r, paths, {DefaultHeaders})

\* the handler's entry for the requests of a run of the server
Receive(r) == ReceiveFrom(r, Paths)

\* FindWebhookById that turns a request to an endpoint the store does not
\* hold away with 404
FindWebhookById_KnownOnly(r) ==
  /\ pc[r] = "findWebhookById"
  /\ \E ok \in IF mongoConnected THEN BOOLEAN ELSE {TRUE} :
       IF ok /\ (Val(parsedPath[r].id) \in webhookDocs \/ files[Val(parsedPath[r].id)] # None)
       THEN /\ requestEntry' = [requestEntry EXCEPT ![r] =
                 NewRequestEntry(r, parsedPath[r], req[r])]
            /\ pc' = [pc EXCEPT ![r] = "saveRequest"]
            /\ sent' = sent
       ELSE /\ sent' = [sent EXCEPT ![r] =
                 Append(@, JsonError(404, "Not Found", Msg("Unknown webhook")))]
            /\ pc' = [pc EXCEPT ![r] = "done"]
            /\ requestEntry' = requestEntry
  /\ UNCHANGED <<phpVars, adminVars, ioRaises, storeVars, fpc, req, parsedPath, parsed, todo, upstream, updateData,
                 emitted, saved, axiosCalls>>

(***************************************************************************)
(* await findWebhookById(id), then requestEntry is built.  The MongoDB     *)
(* query can reject, which the handler's catch block answers with 500;     *)
(* readWebhookFile swallows every error.                                   *)
(***************************************************************************)
FindWebhookById(r) ==
  /\ pc[r] = "findWebhookById"
  /\ \E ok \in IF mongoConnected THEN BOOLEAN ELSE {TRUE} :
       IF ok
       THEN /\ requestEntry' = [requestEntry EXCEPT ![r] =
                 NewRequestEntry(r, parsedPath[r], req[r])]
            /\ pc' = [pc EXCEPT ![r] = "saveRequest"]
            /\ sent' = sent
       ELSE /\ InternalError(r, Msg("findOne failed"))
            /\ pc' = [pc EXCEPT ![r] = "done"]
            /\ requestEntry' = requestEntry
  /\ UNCHANGED <<phpVars, adminVars, ioRaises, storeVars, fpc, req, parsedPath, parsed, todo, upstream, updateData,
                 emitted, saved, axiosCalls>>


\* { ...old, ...updateData }
Merge(old, new) ==
  [f \in DOMAIN old \cup DOMAIN new |-> IF f \in DOMAIN new THEN new[f] ELSE old[f]]

\* SaveRequest with saveRequest(requestEntry) called without await: the
\* handler goes on while the insert or the file write is still to come
SaveRequest_NotAwaited(r) ==
  /\ pc[r] = "saveRequest"
  /\ pc' = [pc EXCEPT ![r] = "respond"]
  /\ UNCHANGED <<phpVars, adminVars, ioRaises, storeVars, fpc, req, parsedPath, requestEntry, parsed, todo, upstream,
                 updateData, sent, emitted, saved, axiosCalls>>

\* SaveRequest without the try/catch around the saveRequest call: a rejected
\* insert reaches the handler's catch block
SaveRequest_Unguarded(r) ==
  /\ pc[r] = "saveRequest"
  /\ IF mongoConnected
     THEN /\ \E ok \in BOOLEAN :
               IF ok
               THEN /\ requestDocs' = requestDocs \cup {requestEntry[r]}
                    /\ emitted' = Emit(emitted, r, "request:new", requestEntry[r])
                    /\ saved' = [saved EXCEPT ![r] = "returned"]
                    /\ pc' = [pc EXCEPT ![r] = "respond"]
                    /\ sent' = sent
               ELSE /\ saved' = [saved EXCEPT ![r] = "threw"]
                    /\ InternalError(r, Msg("save failed"))
                    /\ pc' = [pc EXCEPT ![r] = "done"]
                    /\ UNCHANGED <<requestDocs, emitted>>
          /\ parsed' = parsed
     ELSE /\ \E readOk \in BOOLEAN :
               parsed' = [parsed EXCEPT ![r] =
                            IF readOk THEN files[requestEntry[r].webhook_id] ELSE None]
          /\ pc' = [pc EXCEPT ![r] = "saveRequestWrite"]
          /\ UNCHANGED <<requestDocs, emitted, saved, sent>>
  /\ UNCHANGED <<phpVars, adminVars, ioRaises, mongoState, mongoConnected, files, fpc, req, parsedPath, requestEntry,
                 todo, upstream, updateData, axiosCalls>>

\* SaveRequest with the 'request:new' call outside of every try: a call that
\* raises ends the handler in its catch block
SaveRequest_EmitUnguarded(r) ==
  /\ pc[r] = "saveRequest"
  /\ IF mongoConnected
     THEN /\ \E ok \in BOOLEAN :
               IF ok
               THEN /\ requestDocs' = requestDocs \cup {requestEntry[r]}
                    /\ emitted' = Emit(emitted, r, "request:new", requestEntry[r])
                    /\ saved' = [saved EXCEPT ![r] = "returned"]
                    /\ IF ioRaises
                       THEN /\ InternalError(r, Msg("emit failed"))
                            /\ pc' = [pc EXCEPT ![r] = "done"]
                       ELSE /\ sent' = sent
                            /\ pc' = [pc EXCEPT ![r] = "respond"]
               ELSE /\ saved' = [saved EXCEPT ![r] = "threw"]
                    /\ pc' = [pc EXCEPT ![r] = "respond"]
                    /\ UNCHANGED <<requestDocs, emitted, sent>>
          /\ parsed' = parsed
     ELSE /\ \E readOk \in BOOLEAN :
               parsed' = [parsed EXCEPT ![r] =
                            IF readOk THEN files[requestEntry[r].webhook_id] ELSE None]
          /\ pc' = [pc EXCEPT ![r] = "saveRequestWrite"]
          /\ UNCHANGED <<requestDocs, emitted, saved, sent>>
  /\ UNCHANGED <<phpVars, adminVars, ioRaises, mongoState, mongoConnected, files, fpc, req, parsedPath,
                 requestEntry, todo, upstream, updateData, axiosCalls>>

(***************************************************************************)
(* saveRequest.  MongoDB: one insert, which can reject.  Files: the        *)
(* endpoint's file is read here (readWebhookFile gives null for a file     *)
(* that is missing or cannot be read) and rewritten whole in               *)
(* SaveRequestWrite.                                                       *)
(* 'request:new' is emitted when saveRequest returns, not when it throws.  *)
(***************************************************************************)
SaveRequest(r) ==
  /\ pc[r] = "saveRequest"
  /\ IF mongoConnected
     THEN /\ \E ok \in BOOLEAN :
               IF ok
               THEN /\ requestDocs' = requestDocs \cup {requestEntry[r]}
                    /\ emitted' = Emit(emitted, r, "request:new", requestEntry[r])
                    /\ saved' = [saved EXCEPT ![r] = "returned"]
               ELSE /\ saved' = [saved EXCEPT ![r] = "threw"]
                    /\ UNCHANGED <<requestDocs, emitted>>
          /\ pc' = [pc EXCEPT ![r] = "respond"]
          /\ parsed' = parsed
     ELSE /\ \E readOk \in BOOLEAN :
               parsed' = [parsed EXCEPT ![r] =
                            IF readOk THEN files[requestEntry[r].webhook_id] ELSE None]
          /\ pc' = [pc EXCEPT ![r] = "saveRequestWrite"]
          /\ UNCHANGED <<requestDocs, emitted, saved>>
  /\ UNCHANGED <<phpVars, adminVars, ioRaises, mongoState, mongoConnected, files, fpc, req, parsedPath, requestEntry,
                 todo, upstream, updateData, sent, axiosCalls>>

\* the record saveRequest writes: a placeholder endpoint when the file was
\* missing, else what was read with the request pushed
SaveRequestData(r) ==
  IF parsed[r] = None
  THEN [webhook |-> [id |-> requestEntry[r].webhook_id, status |-> 200,
                     content_type |-> "text/html", destination |-> ""],
        requests |-> <<requestEntry[r]>>]
  ELSE [Val(parsed[r]) EXCEPT !.requests = Append(@, requestEntry[r])]

\* writeWebhookFile of saveRequest: fs.writeFile, its failure only logged
SaveRequestWrite(r) ==
  /\ pc[r] = "saveRequestWrite"
  /\ \E ok \in BOOLEAN :
       files' = IF ok
                THEN [files EXCEPT ![requestEntry[r].webhook_id] = Some(SaveRequestData(r))]
                ELSE files
  /\ emitted' = Emit(emitted, r, "request:new", requestEntry[r])
  /\ saved' = [saved EXCEPT ![r] = "returned"]
  /\ parsed' = [parsed EXCEPT ![r] = None]
  /\ pc' = [pc EXCEPT ![r] = "respond"]
  /\ UNCHANGED <<phpVars, adminVars, ioRaises, mongoState, mongoConnected, requestDocs, fpc, req, parsedPath,
                 requestEntry, todo, upstream, updateData, sent, axiosCalls>>

\* Respond with the test of the second branch of the matrix taken first: a
\* request with both clauses is forwarded synchronously
Respond_AwaitsForward(r) ==
  /\ pc[r] = "respond"
  /\ LET data == [id |-> requestEntry[r].webhook_id, method |-> req[r].method,
                  rawBody |-> req[r].rawBody]
         status == IF hasResponseParams(r) THEN Val(parsedPath[r].responseStatus) ELSE 200
         type == IF hasResponseParams(r) THEN Val(parsedPath[r].responseType) ELSE "json"
     IN IF hasForwardParams(r)
        THEN /\ axiosCalls' = [axiosCalls EXCEPT ![r] = @ + 1]
             /\ fpc' = [fpc EXCEPT ![r] = "axios"]
             /\ pc' = [pc EXCEPT ![r] = "forwardRequestAndRespond"]
             /\ sent' = sent
        ELSE IF ~StatusCodeAccepted(status)
        THEN /\ InternalError(r, [msg |-> "Invalid status code", arg |-> <<status>>])
             /\ pc' = [pc EXCEPT ![r] = "done"]
             /\ UNCHANGED <<fpc, axiosCalls>>
        ELSE /\ sent' = [sent EXCEPT ![r] =
                          Append(@, sendImmediateResponse(status, type, data))]
             /\ pc' = [pc EXCEPT ![r] = IF hasForwardParams(r)
                                        THEN "forwardRequestInBackground" ELSE "done"]
             /\ UNCHANGED <<fpc, axiosCalls>>
  /\ UNCHANGED <<phpVars, adminVars, ioRaises, storeVars, req, parsedPath, requestEntry, parsed, todo, upstream,
                 updateData, emitted, saved>>

\* Respond with the third branch of the matrix answering with defaultStatus
\* and defaultType, as the fourth does
Respond_IgnoresDirective(r) ==
  /\ pc[r] = "respond"
  /\ LET data == [id |-> requestEntry[r].webhook_id, method |-> req[r].method,
                  rawBody |-> req[r].rawBody]
         status == IF hasResponseParams(r) /\ hasForwardParams(r)
                   THEN Val(parsedPath[r].responseStatus) ELSE 200
         type == IF hasResponseParams(r) /\ hasForwardParams(r)
                 THEN Val(parsedPath[r].responseType) ELSE "json"
     IN IF hasForwardParams(r) /\ ~hasResponseParams(r)
        THEN /\ axiosCalls' = [axiosCalls EXCEPT ![r] = @ + 1]
             /\ fpc' = [fpc EXCEPT ![r] = "axios"]
             /\ pc' = [pc EXCEPT ![r] = "forwardRequestAndRespond"]
             /\ sent' = sent
        ELSE IF ~StatusCodeAccepted(status)
        THEN /\ InternalError(r, [msg |-> "Invalid status code", arg |-> <<status>>])
             /\ pc' = [pc EXCEPT ![r] = "done"]
             /\ UNCHANGED <<fpc, axiosCalls>>
        ELSE /\ sent' = [sent EXCEPT ![r] =
                          Append(@, sendImmediateResponse(status, type, data))]
             /\ pc' = [pc EXCEPT ![r] = IF hasForwardParams(r)
                                        THEN "forwardRequestInBackground" ELSE "done"]
             /\ UNCHANGED <<fpc, axiosCalls>>
  /\ UNCHANGED <<phpVars, adminVars, ioRaises, storeVars, req, parsedPath, requestEntry, parsed, todo, upstream,
                 updateData, emitted, saved>>

\* Respond without the handler's try/catch: the exception of
\* sendImmediateResponse escapes and nothing is answered
Respond_NoCatch(r) ==
  /\ pc[r] = "respond"
  /\ LET data == [id |-> requestEntry[r].webhook_id, method |-> req[r].method,
                  rawBody |-> req[r].rawBody]
         status == IF hasResponseParams(r) THEN Val(parsedPath[r].responseStatus) ELSE 200
         type == IF hasResponseParams(r) THEN Val(parsedPath[r].responseType) ELSE "json"
     IN IF hasForwardParams(r) /\ ~hasResponseParams(r)
        THEN /\ axiosCalls' = [axiosCalls EXCEPT ![r] = @ + 1]
             /\ fpc' = [fpc EXCEPT ![r] = "axios"]
             /\ pc' = [pc EXCEPT ![r] = "forwardRequestAndRespond"]
             /\ sent' = sent
        ELSE IF ~StatusCodeAccepted(status)
        THEN /\ sent' = sent
             /\ pc' = [pc EXCEPT ![r] = "done"]
             /\ UNCHANGED <<fpc, axiosCalls>>
        ELSE /\ sent' = [sent EXCEPT ![r] =
                          Append(@, sendImmediateResponse(status, type, data))]
             /\ pc' = [pc EXCEPT ![r] = IF hasForwardParams(r)
                                        THEN "forwardRequestInBackground" ELSE "done"]
             /\ UNCHANGED <<fpc, axiosCalls>>
  /\ UNCHANGED <<phpVars, adminVars, ioRaises, storeVars, req, parsedPath, requestEntry, parsed, todo, upstream,
                 updateData, emitted, saved>>

(***************************************************************************)
(* The decision matrix.  With a forward target and no response clause the  *)
(* handler enters forwardRequestAndRespond, which runs up to its axios     *)
(* call; otherwise it answers at once with sendImmediateResponse, with the *)
(* directive's status and type or with the defaults 200 and json.  An      *)
(* exception of sendImmediateResponse reaches the handler's catch block,   *)
(* and forwardRequestInBackground is not called.                           *)
(***************************************************************************)
Respond(r) ==
  /\ pc[r] = "respond"
  /\ LET data == [id |-> requestEntry[r].webhook_id, method |-> req[r].method,
                  rawBody |-> req[r].rawBody]
         status == IF hasResponseParams(r) THEN Val(parsedPath[r].responseStatus) ELSE 200
         type == IF hasResponseParams(r) THEN Val(parsedPath[r].responseType) ELSE "json"
     IN IF hasForwardParams(r) /\ ~hasResponseParams(r)
        THEN /\ axiosCalls' = [axiosCalls EXCEPT ![r] = @ + 1]
             /\ fpc' = [fpc EXCEPT ![r] = "axios"]
             /\ pc' = [pc EXCEPT ![r] = "forwardRequestAndRespond"]
             /\ sent' = sent
        ELSE IF ~StatusCodeAccepted(status)
        THEN /\ InternalError(r, [msg |-> "Invalid status code", arg |-> <<status>>])
             /\ pc' = [pc EXCEPT ![r] = "done"]
             /\ UNCHANGED <<fpc, axiosCalls>>
        ELSE /\ sent' = [sent EXCEPT ![r] =
                          Append(@, sendImmediateResponse(status, type, data))]
             /\ pc' = [pc EXCEPT ![r] = IF hasForwardParams(r)
                                        THEN "forwardRequestInBackground" ELSE "done"]
             /\ UNCHANGED <<fpc, axiosCalls>>
  /\ UNCHANGED <<phpVars, adminVars, ioRaises, storeVars, req, parsedPath, requestEntry, parsed, todo, upstream,
                 updateData, emitted, saved>>

\* ForwardRequestInBackground with the call awaited: the handler waits for
\* the forwarding function
ForwardRequestInBackground_Awaited(r) ==
  /\ pc[r] = "forwardRequestInBackground"
  /\ axiosCalls' = [axiosCalls EXCEPT ![r] = @ + 1]
  /\ fpc' = [fpc EXCEPT ![r] = "axios"]
  /\ pc' = [pc EXCEPT ![r] = "forwardRequestAndRespond"]
  /\ UNCHANGED <<phpVars, adminVars, ioRaises, storeVars, req, parsedPath, requestEntry, parsed, todo, upstream,
                 updateData, sent, emitted, saved>>

\* forwardRequestInBackground(...) called without await: it runs up to its
\* axios call and the handler ends
ForwardRequestInBackground(r) ==
  /\ pc[r] = "forwardRequestInBackground"
  /\ axiosCalls' = [axiosCalls EXCEPT ![r] = @ + 1]
  /\ fpc' = [fpc EXCEPT ![r] = "axios"]
  /\ pc' = [pc EXCEPT ![r] = "done"]
  /\ UNCHANGED <<phpVars, adminVars, ioRaises, storeVars, req, parsedPath, requestEntry, parsed, todo, upstream,
                 updateData, sent, emitted, saved>>


\* the length above which a stored upstream body is cut
TruncateAt == 1000

\* axios settles with a response only for a status its default validateStatus
\* accepts (2xx); every other outcome rejects the promise
AxiosResolves(o) == o.kind = "http" /\ o.status >= 200 /\ o.status < 300

\* proxyError.message of a rejected call
AxiosErrorMessage(o) ==
  IF o.kind = "http"
  THEN [msg |-> "Request failed with status code", arg |-> <<o.status>>]
  ELSE IF o.kind = "timeout" THEN Msg("timeout of 30000ms exceeded")
  ELSE Msg("connect ECONNREFUSED")

\* String.prototype.includes: t occurs in s
includes(s, t) ==
  \E i \in 1..(Len(s) - Len(t) + 1) : SubSeq(s, i, i + Len(t) - 1) = t

\* StoredBody that cuts a body of exactly 1000 characters as well
StoredBody_AtLeast(fullBody, o) ==
  IF ~fullBody /\ o.data >= TruncateAt /\ ~includes(o.contentType, "application/json")
  THEN [length |-> TruncateAt, truncated |-> TRUE]
  ELSE [length |-> o.data, truncated |-> FALSE]

\* responseBody as stored, a body being its number of characters: its first
\* 1000 characters plus the marker unless fullBody, a content type that
\* includes application/json or a body of at most 1000
StoredBody(fullBody, o) ==
  IF ~fullBody /\ o.data > TruncateAt /\ ~includes(o.contentType, "application/json")
  THEN [length |-> TruncateAt, truncated |-> TRUE]
  ELSE [length |-> o.data, truncated |-> FALSE]

\* the forwarding function of r is forwardRequestInBackground
InBackground(r) == hasResponseParams(r)

\* the hop-by-hop headers both forwarding functions delete, and host
HopByHopHeaders ==
  {"connection", "keep-alive", "proxy-authenticate", "proxy-authorization", "te",
   "trailers", "transfer-encoding", "upgrade", "host"}

\* the copy that keeps the host header
StripHopByHop_KeepsHost(h) ==
  [n \in DOMAIN h \ (HopByHopHeaders \ {"host"}) |-> h[n]]

\* const headers = { ...req.headers } and the nine deletes
StripHopByHop(h) == [n \in DOMAIN h \ HopByHopHeaders |-> h[n]]

\* axiosConfig: what the forwarding function of r hands to axios
axiosConfig(r) ==
  [method |-> req[r].method,
   url |-> Val(parsedPath[r].forwardUrl),
   headers |-> StripHopByHop(req[r].headers),
   data |-> req[r].rawBody]

\* what both forwarding functions record about the upstream request
ForwardRequestFields(r) ==
  [forward_request_headers |-> axiosConfig(r).headers,
   forward_request_body |-> req[r].rawBody,
   forward_request_method |-> req[r].method,
   forward_request_url |-> Val(parsedPath[r].forwardUrl),
   forward_request_timestamp |-> "Date"]

\* updateData of the try branch, after axios resolved with o
SuccessUpdate(r, o) ==
  Merge(ForwardRequestFields(r),
    Merge([proxied_status |-> o.status,
           forward_response_status |-> Some(o.status),
           forward_response_timestamp |-> "Date",
           forward_response_headers |-> Some([content_type |-> o.contentType]),
           forward_response_body |-> Some(StoredBody(parsedPath[r].fullBody, o))],
          IF InBackground(r) THEN [background_forward |-> TRUE]
          ELSE [response_status |-> o.status]))

\* FailureUpdate with the status of the handler's catch block, 500, in the
\* place of 502
FailureUpdate_Status500(r, o) ==
  Merge(ForwardRequestFields(r),
    Merge([proxy_error |-> AxiosErrorMessage(o),
           forward_response_status |-> Some(500),
           forward_response_body |-> Some([error |-> AxiosErrorMessage(o)])],
          IF InBackground(r) THEN [background_forward |-> TRUE]
          ELSE [response_status |-> 500]))

\* FailureUpdate that records the headers of the error's response
FailureUpdate_WithHeaders(r, o) ==
  Merge(ForwardRequestFields(r),
    Merge([proxy_error |-> AxiosErrorMessage(o),
           forward_response_status |-> Some(502),
           forward_response_headers |-> Some([content_type |-> o.contentType]),
           forward_response_body |-> Some([error |-> AxiosErrorMessage(o)])],
          IF InBackground(r) THEN [background_forward |-> TRUE]
          ELSE [response_status |-> 502]))

\* updateData of the catch branch, after axios rejected with o; the body is
\* the text `Error: ${proxyError.message}`
FailureUpdate(r, o) ==
  Merge(ForwardRequestFields(r),
    Merge([proxy_error |-> AxiosErrorMessage(o),
           forward_response_status |-> Some(502),
           forward_response_body |-> Some([error |-> AxiosErrorMessage(o)])],
          IF InBackground(r) THEN [background_forward |-> TRUE]
          ELSE [response_status |-> 502]))

\* AxiosSettles with forwardRequestInBackground sending the upstream response
\* to the client as forwardRequestAndRespond does
AxiosSettles_BackgroundRelays(r) ==
  /\ fpc[r] = "axios"
  /\ \E o \in UpstreamOutcomes :
       /\ upstream' = [upstream EXCEPT ![r] = Some(o)]
       /\ IF AxiosResolves(o)
          THEN /\ sent' = [sent EXCEPT ![r] = Append(@,
                             [status |-> o.status, kind |-> "upstream",
                              contentType |-> o.contentType,
                              body |-> [length |-> o.data, truncated |-> FALSE]])]
               /\ updateData' = [updateData EXCEPT ![r] = Append(@, SuccessUpdate(r, o))]
          ELSE /\ sent' = sent
               /\ updateData' = [updateData EXCEPT ![r] = Append(@, FailureUpdate(r, o))]
  /\ fpc' = [fpc EXCEPT ![r] = IF mongoConnected THEN "updateOne" ELSE "listWebhookFiles"]
  /\ UNCHANGED <<phpVars, adminVars, ioRaises, storeVars, pc, req, parsedPath, requestEntry, parsed, todo, emitted, saved, axiosCalls>>

\* AxiosSettles with a rejected call issued once more in the place of being
\* handed to the catch branch
AxiosSettles_Retries(r) ==
  /\ fpc[r] = "axios"
  /\ \E o \in UpstreamOutcomes :
       IF ~AxiosResolves(o) /\ axiosCalls[r] < 2
       THEN /\ axiosCalls' = [axiosCalls EXCEPT ![r] = @ + 1]
            /\ UNCHANGED <<upstream, sent, updateData, fpc>>
       ELSE /\ upstream' = [upstream EXCEPT ![r] = Some(o)]
            /\ IF AxiosResolves(o)
               THEN /\ sent' = IF InBackground(r) THEN sent
                               ELSE [sent EXCEPT ![r] = Append(@,
                                       [status |-> o.status, kind |-> "upstream",
                                        contentType |-> o.contentType,
                                        body |-> [length |-> o.data, truncated |-> FALSE]])]
                    /\ updateData' = [updateData EXCEPT ![r] = Append(@, SuccessUpdate(r, o))]
               ELSE /\ sent' = sent
                    /\ updateData' = [updateData EXCEPT ![r] = Append(@, FailureUpdate(r, o))]
            /\ fpc' = [fpc EXCEPT ![r] = IF mongoConnected THEN "updateOne" ELSE "listWebhookFiles"]
            /\ axiosCalls' = axiosCalls
  /\ UNCHANGED <<phpVars, adminVars, ioRaises, storeVars, pc, req, parsedPath, requestEntry, parsed, todo, emitted, saved>>

\* AxiosSettlesFrom with res.send(responseBody): the client gets the body as
\* it is stored
AxiosSettlesFrom_SendsStored(r, outcomes) ==
  /\ fpc[r] = "axios"
  /\ \E o \in outcomes :
       /\ upstream' = [upstream EXCEPT ![r] = Some(o)]
       /\ IF AxiosResolves(o)
          THEN /\ sent' = IF InBackground(r) THEN sent
                          ELSE [sent EXCEPT ![r] = Append(@,
                                  [status |-> o.status, kind |-> "upstream",
                                   contentType |-> o.contentType,
                                   body |-> StoredBody(parsedPath[r].fullBody, o)])]
               /\ updateData' = [updateData EXCEPT ![r] = Append(@, SuccessUpdate(r, o))]
          ELSE /\ sent' = sent
               /\ updateData' = [updateData EXCEPT ![r] = Append(@, FailureUpdate(r, o))]
  /\ fpc' = [fpc EXCEPT ![r] = IF mongoConnected THEN "updateOne" ELSE "listWebhookFiles"]
  /\ UNCHANGED <<phpVars, adminVars, ioRaises, storeVars, pc, req, parsedPath, requestEntry, parsed, todo, emitted, saved, axiosCalls>>

(***************************************************************************)
(* await axios(axiosConfig) settles.  Resolved: forwardRequestAndRespond   *)
(* sends the upstream response to the client; both functions then call     *)
(* updateRequest with the outcome.  Rejected: the catch branch calls       *)
(* updateRequest with the 502 outcome.  updateRequest runs up to its first *)
(* await: the MongoDB update or the directory listing.                     *)
(***************************************************************************)
AxiosSettlesFrom(r, outcomes) ==
  /\ fpc[r] = "axios"
  /\ \E o \in outcomes :
       /\ upstream' = [upstream EXCEPT ![r] = Some(o)]
       /\ IF AxiosResolves(o)
          THEN /\ sent' = IF InBackground(r) THEN sent
                          ELSE [sent EXCEPT ![r] = Append(@,
                                  [status |-> o.status, kind |-> "upstream",
                                   contentType |-> o.contentType,
                                   body |-> [length |-> o.data, truncated |-> FALSE]])]
               /\ updateData' = [updateData EXCEPT ![r] = Append(@, SuccessUpdate(r, o))]
          ELSE /\ sent' = sent
               /\ updateData' = [updateData EXCEPT ![r] = Append(@, FailureUpdate(r, o))]
  /\ fpc' = [fpc EXCEPT ![r] = IF mongoConnected THEN "updateOne" ELSE "listWebhookFiles"]
  /\ UNCHANGED <<phpVars, adminVars, ioRaises, storeVars, pc, req, parsedPath, requestEntry, parsed, todo, emitted, saved, axiosCalls>>

AxiosSettles(r) == AxiosSettlesFrom(r, UpstreamOutcomes)

\* the payload of 'request:updated': the status fields of the updateData
UpdatedPayload(r, u) ==
  [f \in {"rid"} \cup (DOMAIN u \cap {"proxied_status", "proxy_error", "response_status",
                                     "background_forward", "forward_response_status"})
     |-> IF f = "rid" THEN requestEntry[r].rid ELSE u[f]]

\* AfterUpdate without the 502 answer at the end of the catch branch
AfterUpdate_NoAnswer(r, returned) ==
  LET u == updateData[r][Len(updateData[r])]
  IN /\ emitted' = IF returned
                   THEN Emit(emitted, r, "request:updated", UpdatedPayload(r, u))
                   ELSE emitted
     /\ sent' = sent
     /\ fpc' = [fpc EXCEPT ![r] = "done"]
     /\ pc' = IF InBackground(r) THEN pc ELSE [pc EXCEPT ![r] = "done"]

\* AfterUpdate with the 502 answer of forwardRequestAndRespond's catch branch
\* copied into forwardRequestInBackground
AfterUpdate_BackgroundAnswers(r, returned) ==
  LET u == updateData[r][Len(updateData[r])]
  IN /\ emitted' = IF returned
                   THEN Emit(emitted, r, "request:updated", UpdatedPayload(r, u))
                   ELSE emitted
     /\ sent' = IF ~AxiosResolves(Val(upstream[r]))
                THEN [sent EXCEPT ![r] = Append(@,
                        JsonError(502, "Upstream request failed",
                                  AxiosErrorMessage(Val(upstream[r]))))]
                ELSE sent
     /\ fpc' = [fpc EXCEPT ![r] = "done"]
     /\ pc' = IF InBackground(r) THEN pc ELSE [pc EXCEPT ![r] = "done"]

(***************************************************************************)
(* The end of a forwarding function once its updateRequest call is over:   *)
(* 'request:updated' is emitted when updateRequest returned, nothing when  *)
(* it threw; the catch branch of forwardRequestAndRespond then answers     *)
(* 502; the handler awaiting forwardRequestAndRespond ends.                *)
(***************************************************************************)
AfterUpdate(r, returned) ==
  LET u == updateData[r][Len(updateData[r])]
  IN /\ emitted' = IF returned
                   THEN Emit(emitted, r, "request:updated", UpdatedPayload(r, u))
                   ELSE emitted
     /\ sent' = IF ~InBackground(r) /\ ~AxiosResolves(Val(upstream[r]))
                THEN [sent EXCEPT ![r] = Append(@,
                        JsonError(502, "Upstream request failed",
                                  AxiosErrorMessage(Val(upstream[r]))))]
                ELSE sent
     /\ fpc' = [fpc EXCEPT ![r] = "done"]
     /\ pc' = IF InBackground(r) THEN pc ELSE [pc EXCEPT ![r] = "done"]

\* UpdateOne without the inner try/catch of the try branch: a rejected update
\* after a resolved axios call reaches the catch branch, which calls
\* updateRequest again
UpdateOne_NoInnerCatch(r) ==
  /\ fpc[r] = "updateOne"
  /\ \E ok \in BOOLEAN :
       IF ~ok /\ AxiosResolves(Val(upstream[r])) /\ Len(updateData[r]) < 2
       THEN /\ updateData' = [updateData EXCEPT ![r] =
                 Append(@, FailureUpdate(r, Val(upstream[r])))]
            /\ UNCHANGED <<requestDocs, emitted, sent, fpc, pc>>
       ELSE /\ requestDocs' =
                 IF ok
                 THEN {IF d.rid = requestEntry[r].rid
                       THEN Merge(d, updateData[r][Len(updateData[r])]) ELSE d :
                       d \in requestDocs}
                 ELSE requestDocs
            /\ AfterUpdate(r, ok)
            /\ updateData' = updateData
  /\ UNCHANGED <<phpVars, adminVars, ioRaises, mongoState, mongoConnected, files, req, parsedPath, requestEntry,
                 parsed, todo, upstream, saved, axiosCalls>>

\* Request.updateOne({ rid }, updateData), which can reject
UpdateOne(r) ==
  /\ fpc[r] = "updateOne"
  /\ \E ok \in BOOLEAN :
       /\ requestDocs' =
            IF ok
            THEN {IF d.rid = requestEntry[r].rid
                  THEN Merge(d, updateData[r][Len(updateData[r])]) ELSE d :
                  d \in requestDocs}
            ELSE requestDocs
       /\ AfterUpdate(r, ok)
  /\ UNCHANGED <<phpVars, adminVars, ioRaises, mongoState, mongoConnected, files, req, parsedPath, requestEntry,
                 parsed, todo, upstream, updateData, saved, axiosCalls>>


\* await listWebhookFiles(): the *.json files of the storage directory, in
\* the order readdir gives them, or none when readdir fails
ListWebhookFiles(r) ==
  /\ fpc[r] = "listWebhookFiles"
  /\ LET present == {id \in StoreIds : files[id] # None}
     IN \/ \E order \in [1..Cardinality(present) -> present] :
             /\ \A i, j \in DOMAIN order : order[i] = order[j] => i = j
             /\ todo' = [todo EXCEPT ![r] = order]
        \/ todo' = [todo EXCEPT ![r] = << >>]
  /\ fpc' = [fpc EXCEPT ![r] = "readFile"]
  /\ UNCHANGED <<phpVars, adminVars, ioRaises, storeVars, pc, req, parsedPath, requestEntry, parsed, upstream,
                 updateData, sent, emitted, saved, axiosCalls>>

\* parsed.requests with the one of this rid replaced by { ...old, ...updateData }
PatchedRequests(requests, rid, u) ==
  [i \in DOMAIN requests |-> IF i = Min({j \in DOMAIN requests : requests[j].rid = rid})
                             THEN Merge(requests[i], u) ELSE requests[i]]

(***************************************************************************)
(* One turn of updateRequest's loop over the files: the file is read and   *)
(* searched for the rid.  A file that cannot be read is skipped; when no   *)
(* file is left updateRequest returns without having patched anything.     *)
(***************************************************************************)
UpdateReadFile(r) ==
  /\ fpc[r] = "readFile"
  /\ IF todo[r] = << >>
     THEN /\ AfterUpdate(r, TRUE)
          /\ UNCHANGED <<parsed, todo>>
     ELSE LET file == files[Head(todo[r])]
          IN \E readOk \in BOOLEAN :
             IF /\ readOk
                /\ file # None
                /\ \E j \in DOMAIN Val(file).requests :
                     Val(file).requests[j].rid = requestEntry[r].rid
             THEN /\ parsed' = [parsed EXCEPT ![r] = Some(
                       [Val(file) EXCEPT !.requests = PatchedRequests(@,
                          requestEntry[r].rid, updateData[r][Len(updateData[r])])])]
                  /\ fpc' = [fpc EXCEPT ![r] = "writeFile"]
                  /\ UNCHANGED <<todo, pc, sent, emitted>>
             ELSE /\ todo' = [todo EXCEPT ![r] = Tail(@)]
                  /\ UNCHANGED <<parsed, fpc, pc, sent, emitted>>
  /\ UNCHANGED <<phpVars, adminVars, ioRaises, storeVars, req, parsedPath, requestEntry, upstream, updateData,
                 saved, axiosCalls>>

\* await fs.writeFile(full, ...) of updateRequest: on success it returns, a
\* failure is swallowed by the loop's catch and the scan goes on
UpdateWriteFile(r) ==
  /\ fpc[r] = "writeFile"
  /\ \E ok \in BOOLEAN :
       IF ok
       THEN /\ files' = [files EXCEPT ![Head(todo[r])] = parsed[r]]
            /\ todo' = [todo EXCEPT ![r] = << >>]
            /\ AfterUpdate(r, TRUE)
       ELSE /\ todo' = [todo EXCEPT ![r] = Tail(@)]
            /\ fpc' = [fpc EXCEPT ![r] = "readFile"]
            /\ UNCHANGED <<files, pc, sent, emitted>>
  /\ parsed' = [parsed EXCEPT ![r] = None]
  /\ UNCHANGED <<phpVars, adminVars, ioRaises, mongoState, mongoConnected, requestDocs, req, parsedPath,
                 requestEntry, upstream, updateData, saved, axiosCalls>>

(***************************************************************************)
(* POST /webhooks.  An id is generated and looked up; while it exists, and *)
(* at most five times, another one is generated; the id generated after    *)
(* the fifth collision is not looked up.  saveWebhook then inserts the     *)
(* document (the id has a unique index) or writes the endpoint's file.     *)
(***************************************************************************)
MaxTries == 5

\* the variables of the webhook handler and of the forwarding functions
requestVars == <<pc, fpc, req, parsedPath, requestEntry, parsed, todo, upstream, updateData,
                 sent, emitted, saved, axiosCalls>>

\* await findWebhooks(), whose MongoDB query can reject (500), then
\* let id = generateId().  The creations are numbered in the order they begin
CreateBegin(c) ==
  /\ creation[c].pc = "idle"
  /\ IF c = 1 THEN TRUE ELSE creation[c - 1].pc # "idle"
  /\ \E ok \in BOOLEAN, id \in GeneratedIds :
       creation' = [creation EXCEPT ![c] =
                      IF mongoConnected /\ ~ok
                      THEN [pc |-> "failed", id |-> None, tries |-> 0]
                      ELSE [pc |-> "findWebhookById", id |-> Some(id), tries |-> 0]]
  /\ UNCHANGED <<phpVars, webhookDocs, deletion, ioRaises, storeVars, requestVars>>

\* one turn of the loop: await findWebhookById(id), which rejects when the
\* MongoDB query does and gives null for a file that is missing or cannot be
\* read
CreateFindWebhookById(c) ==
  /\ creation[c].pc = "findWebhookById"
  /\ \E ok \in BOOLEAN :
       LET exists == IF mongoConnected THEN Val(creation[c].id) \in webhookDocs
                     ELSE ok /\ files[Val(creation[c].id)] # None
       IN IF mongoConnected /\ ~ok
          THEN creation' = [creation EXCEPT ![c].pc = "failed"]
          ELSE IF ~exists
          THEN creation' = [creation EXCEPT ![c].pc = "saveWebhook"]
          ELSE \E id \in GeneratedIds :
                 creation' = [creation EXCEPT ![c] =
                   [pc |-> IF creation[c].tries + 1 < MaxTries
                           THEN "findWebhookById" ELSE "saveWebhook",
                    id |-> Some(id),
                    tries |-> creation[c].tries + 1]]
  /\ UNCHANGED <<phpVars, webhookDocs, deletion, ioRaises, storeVars, requestVars>>

\* the record saveWebhook writes: the endpoint, its label standing for what
\* this creation was given, and no request
NewWebhookRecord(c) ==
  [webhook |-> [id |-> Val(creation[c].id), label |-> c], requests |-> << >>]

\* await saveWebhook(webhookData).  MongoDB: webhook.save() rejects on an id
\* that is in the collection (unique index) and can reject otherwise.  Files:
\* writeWebhookFile writes { webhook, requests: [] } over whatever is there,
\* its failure only logged
CreateSaveWebhook(c) ==
  /\ creation[c].pc = "saveWebhook"
  /\ IF mongoConnected
     THEN /\ \E ok \in BOOLEAN :
               IF ok /\ Val(creation[c].id) \notin webhookDocs
               THEN /\ webhookDocs' = webhookDocs \cup {Val(creation[c].id)}
                    /\ creation' = [creation EXCEPT ![c].pc = "done"]
               ELSE /\ webhookDocs' = webhookDocs
                    /\ creation' = [creation EXCEPT ![c].pc = "failed"]
          /\ files' = files
     ELSE /\ \E ok \in BOOLEAN :
               files' = IF ok
                        THEN [files EXCEPT ![Val(creation[c].id)] = Some(NewWebhookRecord(c))]
                        ELSE files
          /\ creation' = [creation EXCEPT ![c].pc = "done"]
          /\ webhookDocs' = webhookDocs
  /\ UNCHANGED <<phpVars, deletion, ioRaises, mongoState, mongoConnected, requestDocs, requestVars>>

(***************************************************************************)
(* DELETE /webhooks/:id of the endpoint the requests go to: deleteWebhook, *)
(* then deleteRequests.                                                    *)
(***************************************************************************)
DeletedId == <<"a">>

\* await deleteWebhook(id): Webhook.deleteOne, which can reject (500), or
\* fs.unlink, its failure ignored
DeleteWebhook ==
  /\ deletion.pc = "idle"
  /\ \E ok \in BOOLEAN :
       IF mongoConnected
       THEN /\ webhookDocs' = IF ok THEN webhookDocs \ {DeletedId} ELSE webhookDocs
            /\ deletion' = [deletion EXCEPT !.pc = IF ok THEN "deleteRequests" ELSE "failed"]
            /\ files' = files
       ELSE /\ files' = IF ok THEN [files EXCEPT ![DeletedId] = None] ELSE files
            /\ deletion' = [deletion EXCEPT !.pc = "deleteRequests"]
            /\ webhookDocs' = webhookDocs
  /\ UNCHANGED <<phpVars, creation, ioRaises, mongoState, mongoConnected, requestDocs, requestVars>>

\* await deleteRequests(id): Request.deleteMany, which can reject, or the
\* endpoint's file read (null when missing or unreadable) to be rewritten
\* without requests
DeleteRequests ==
  /\ deletion.pc = "deleteRequests"
  /\ \E ok \in BOOLEAN :
       IF mongoConnected
       THEN /\ requestDocs' = IF ok THEN {d \in requestDocs : d.webhook_id # DeletedId}
                              ELSE requestDocs
            /\ deletion' = [deletion EXCEPT !.pc = IF ok THEN "done" ELSE "failed"]
       ELSE /\ requestDocs' = requestDocs
            /\ deletion' = IF ok /\ files[DeletedId] # None
                           THEN [pc |-> "deleteRequestsWrite", parsed |-> files[DeletedId]]
                           ELSE [deletion EXCEPT !.pc = "done"]
  /\ UNCHANGED <<phpVars, webhookDocs, creation, ioRaises, mongoState, mongoConnected, files,
                 requestVars>>

\* writeWebhookFile of deleteRequests: parsed with requests = []
DeleteRequestsWrite ==
  /\ deletion.pc = "deleteRequestsWrite"
  /\ \E ok \in BOOLEAN :
       files' = IF ok
                THEN [files EXCEPT ![DeletedId] =
                        Some([Val(deletion.parsed) EXCEPT !.requests = << >>])]
                ELSE files
  /\ deletion' = [pc |-> "done", parsed |-> None]
  /\ UNCHANGED <<phpVars, webhookDocs, creation, ioRaises, mongoState, mongoConnected, requestDocs,
                 requestVars>>

\* the handler and the forwarding functions of the one request of the runs
\* with endpoint management
OneRequest(paths) ==
  \/ ReceiveFrom(1, paths)
  \/ FindWebhookById(1)
  \/ SaveRequest(1)
  \/ SaveRequestWrite(1)
  \/ Respond(1)
  \/ ForwardRequestInBackground(1)
  \/ AxiosSettles(1)
  \/ UpdateOne(1)
  \/ ListWebhookFiles(1)
  \/ UpdateReadFile(1)
  \/ UpdateWriteFile(1)

\* one request to endpoint a and two creations of endpoints
CreateNext ==
  \/ MongoConnect
  \/ MongoConnectFailed
  \/ OneRequest({P_id, P_id \o P_res \o P_fwd})
  \/ \E c \in Creations : CreateBegin(c)
  \/ \E c \in Creations : CreateFindWebhookById(c)
  \/ \E c \in Creations : CreateSaveWebhook(c)

CreateSpec == Init /\ [][CreateNext]_vars

\* one request to endpoint a and the deletion of endpoint a
DeleteNext ==
  \/ MongoConnect
  \/ MongoConnectFailed
  \/ OneRequest({P_id, P_id \o P_fwd, P_id \o P_res \o P_fwd})
  \/ DeleteWebhook
  \/ DeleteRequests
  \/ DeleteRequestsWrite

DeleteSpec == Init /\ [][DeleteNext]_vars

Next ==
  \/ MongoConnect
  \/ MongoConnectFailed
  \/ \E r \in Rids : Receive(r)
  \/ \E r \in Rids : FindWebhookById(r)
  \/ \E r \in Rids : SaveRequest(r)
  \/ \E r \in Rids : SaveRequestWrite(r)
  \/ \E r \in Rids : Respond(r)
  \/ \E r \in Rids : ForwardRequestInBackground(r)
  \/ \E r \in Rids : AxiosSettles(r)
  \/ \E r \in Rids : UpdateOne(r)
  \/ \E r \in Rids : ListWebhookFiles(r)
  \/ \E r \in Rids : UpdateReadFile(r)
  \/ \E r \in Rids : UpdateWriteFile(r)

Spec == Init /\ [][Next]_vars

(***************************************************************************)
(* One request that forwards, in synchronous or in background mode, with   *)
(* and without fullbody:true, to an upstream that answers with bodies of   *)
(* lengths around the 1000 characters of the truncation and with JSON and  *)
(* other content types.                                                    *)
(***************************************************************************)
P_fullbody == <<"/">> \o L_fullbody

TruncPaths ==
  {P_id \o P_fwd,
   P_id \o P_fwd \o P_fullbody,
   P_id \o P_res \o P_fwd,
   P_id \o P_res \o P_fwd \o P_fullbody}

\* response.data.length
TruncLengths == {0, 1, TruncateAt - 1, TruncateAt, TruncateAt + 1, 5 * TruncateAt}

\* response.headers['content-type'], "" when the upstream sent none
TruncContentTypes ==
  {"", "text/plain", "text/html; charset=utf-8", "application/json",
   "application/json; charset=utf-8", "application/problem+json"}

TruncOutcomes ==
  {[kind |-> "http", status |-> 200, contentType |-> c, data |-> n] :
     c \in TruncContentTypes, n \in TruncLengths}

TruncNext ==
  \/ MongoConnect
  \/ MongoConnectFailed
  \/ ReceiveFrom(1, TruncPaths)
  \/ FindWebhookById(1)
  \/ SaveRequest(1)
  \/ SaveRequestWrite(1)
  \/ Respond(1)
  \/ ForwardRequestInBackground(1)
  \/ AxiosSettlesFrom(1, TruncOutcomes)
  \/ UpdateOne(1)
  \/ ListWebhookFiles(1)
  \/ UpdateReadFile(1)
  \/ UpdateWriteFile(1)

TruncSpec == Init /\ [][TruncNext]_vars

(***************************************************************************)
(* One forwarding request, in synchronous or in background mode, whose     *)
(* inbound headers are any MaxHeaders of the names the forwarding          *)
(* functions delete and of three they keep.                                *)
(***************************************************************************)
MaxHeaders == 2

HeaderObjects ==
  UNION {[S -> {"v", "w"}] :
           S \in {T \in SUBSET (HopByHopHeaders \cup {"content-type", "trailer", "x-a"}) :
                    Cardinality(T) <= MaxHeaders}}

HeaderPaths == {P_id \o P_fwd, P_id \o P_res \o P_fwd}

HeaderNext ==
  \/ MongoConnect
  \/ MongoConnectFailed
  \/ ReceiveWith(1, HeaderPaths, HeaderObjects)
  \/ FindWebhookById(1)
  \/ SaveRequest(1)
  \/ SaveRequestWrite(1)
  \/ Respond(1)
  \/ ForwardRequestInBackground(1)
  \/ AxiosSettles(1)
  \/ UpdateOne(1)
  \/ ListWebhookFiles(1)
  \/ UpdateReadFile(1)
  \/ UpdateWriteFile(1)

HeaderSpec == Init /\ [][HeaderNext]_vars

\* the server with a Socket.IO whose emit may raise on every call
NotifySpec == InitWith(BOOLEAN) /\ [][Next]_vars

\* the continuations of request r: what the event loop runs once the awaited
\* store operation or upstream call of r has settled
Continue(r) ==
  \/ FindWebhookById(r)
  \/ SaveRequest(r)
  \/ SaveRequestWrite(r)
  \/ Respond(r)
  \/ ForwardRequestInBackground(r)
  \/ AxiosSettles(r)
  \/ UpdateOne(r)
  \/ ListWebhookFiles(r)
  \/ UpdateReadFile(r)
  \/ UpdateWriteFile(r)

\* every store operation returns or throws, every axios call settles (the
\* timeout of 30000 ms of axiosConfig rejects a call without an answer), and
\* the event loop runs the continuation
FairSpec == Spec /\ \A r \in Rids : WF_vars(Continue(r))

\* the continuations of request r that do not wait for saveRequest or
\* updateRequest: those of the endpoint lookup, of the response writer and of
\* the upstream call
ContinueCore(r) ==
  \/ FindWebhookById(r)
  \/ Respond(r)
  \/ ForwardRequestInBackground(r)
  \/ AxiosSettles(r)

\* the server with a store whose insert, update, file reads and file writes
\* may never settle: the continuation of an await on saveRequest or
\* updateRequest runs only if the store lets it
StallSpec == Spec /\ \A r \in Rids : WF_vars(ContinueCore(r))

(***************************************************************************)
(* The server in file-storage mode on a file system without faults:        *)
(* MongoDB never connects, and every fs.readFile, fs.writeFile and         *)
(* fs.readdir of the store functions succeeds.  Each behaviour of FileSpec *)
(* is a behaviour of Spec.                                                 *)
(***************************************************************************)
\* readWebhookFile of saveRequest returns what the file holds
SaveRequestReads(r) ==
  /\ SaveRequest(r)
  /\ parsed'[r] = files[requestEntry[r].webhook_id]

\* writeWebhookFile of saveRequest writes the file
SaveRequestWrites(r) ==
  /\ SaveRequestWrite(r)
  /\ files'[requestEntry[r].webhook_id] = Some(SaveRequestData(r))

\* listWebhookFiles returns every file of the directory
ListsWebhookFiles(r) ==
  /\ ListWebhookFiles(r)
  /\ Len(todo'[r]) = Cardinality({id \in StoreIds : files[id] # None})

\* fs.readFile of updateRequest returns what the file holds: a file with the
\* rid is patched
UpdateReadsFile(r) ==
  /\ UpdateReadFile(r)
  /\ \/ todo[r] = << >>
     \/ fpc'[r] = "writeFile"
     \/ \A j \in DOMAIN Val(files[Head(todo[r])]).requests :
          Val(files[Head(todo[r])]).requests[j].rid # requestEntry[r].rid

\* fs.writeFile of updateRequest writes the file
UpdateWritesFile(r) ==
  /\ UpdateWriteFile(r)
  /\ files'[Head(todo[r])] = parsed[r]

FileNext ==
  \/ MongoConnectFailed
  \/ \E r \in Rids : Receive(r)
  \/ \E r \in Rids : FindWebhookById(r)
  \/ \E r \in Rids : SaveRequestReads(r)
  \/ \E r \in Rids : SaveRequestWrites(r)
  \/ \E r \in Rids : Respond(r)
  \/ \E r \in Rids : ForwardRequestInBackground(r)
  \/ \E r \in Rids : AxiosSettles(r)
  \/ \E r \in Rids : ListsWebhookFiles(r)
  \/ \E r \in Rids : UpdateReadsFile(r)
  \/ \E r \in Rids : UpdateWritesFile(r)

FileSpec == Init /\ [][FileNext]_vars

(***************************************************************************)
(* parseWebhookPath on its own: one request whose path is an endpoint id   *)
(* followed by up to MaxSegs segments, well-formed and malformed, in any   *)
(* order; the handler's entry parses it and answers the parser's errors.   *)
(***************************************************************************)
\* the segments behind the id of a parser input
MaxSegs == 2

ParserIds == {<<"a">>, <<"!", "!">>}

ParserSegments ==
  {L_res \o <<"4", "0", "4">> \o TypeWords.html,
   L_res \o <<"2", "0", "0">> \o TypeWords.json,
   L_res \o <<"0", "0", "0">> \o TypeWords.plain,
   L_res \o <<"0", "9", "9">> \o TypeWords.json,
   L_res \o <<"9", "9", "9">> \o TypeWords.html,
   L_res \o <<"4", "0", "4", "x", "m", "l">>,
   L_res \o <<"2", "0">> \o TypeWords.json,
   L_res \o <<"2", "0", "0", "0">> \o TypeWords.json,
   L_res \o <<"2", "0", "0">> \o TypeWords.json \o <<"x">>,
   L_fullbody,
   L_fullbody \o <<"x">>,
   L_tag \o <<"a", "b">>,
   L_tag \o <<"%", "4", "1">>,
   L_tag \o <<"%">>,
   L_tag \o <<"%", "4">>,
   L_tag \o <<"%", "e", "2", "%", "8", "2", "%", "a", "c">>,
   L_fwd \o L_dollars \o P_url \o L_dollars,
   L_fwd \o L_dollars \o <<"f", "t", "p", ":", "/", "/", "u">> \o L_dollars,
   L_fwd \o L_dollars \o <<"u">> \o L_dollars,
   L_fwd \o P_url,
   L_fwd \o <<"f", "t", "p", ":", "/", "/", "u">>,
   L_fwd \o <<"h", "t", "t", "p", "s", ":", "/", "/", "u", ":", "8", "a">>,
   <<"x">>}

\* id/segment/.../segment
ParserJoin(id, segs) ==
  LET RECURSIVE go(_, _)
      go(i, acc) == IF i > Len(segs) THEN acc ELSE go(i + 1, acc \o <<"/">> \o segs[i])
  IN go(1, L_webhook \o id)

SegmentPaths ==
  {ParserJoin(x[1], x[2]) :
     x \in ParserIds \X UNION {[1..n -> ParserSegments] : n \in 0..MaxSegs}}

\* a bounded forward segment and the other directives, each at most once, in
\* every order
OrderUrls ==
  {P_url,
   <<"h", "t", "t", "p", "s", ":", "/", "/", "a", ".", "b", "/", "c", "?", "x", "=", "1",
     "#", "y">>}

OrderSlots ==
  [fwd |-> {L_fwd \o L_dollars \o u \o L_dollars : u \in OrderUrls},
   res |-> {L_res \o <<"4", "0", "4">> \o TypeWords.html,
            L_res \o <<"2", "0", "0">> \o TypeWords.json},
   fullbody |-> {L_fullbody},
   tag |-> {L_tag \o <<"a", "b">>, L_tag \o <<"%", "4", "1">>}]

OrderPaths ==
  {ParserJoin(<<"a">>, segs) :
     segs \in {x \in UNION {[1..n -> UNION {OrderSlots[s] : s \in DOMAIN OrderSlots}] :
                              n \in 1..Cardinality(DOMAIN OrderSlots)} :
                 /\ \E i \in DOMAIN x : x[i] \in OrderSlots.fwd
                 /\ \A s \in DOMAIN OrderSlots :
                      Cardinality({i \in DOMAIN x : x[i] \in OrderSlots[s]}) <= 1}}

\* res:<status><type> alone, for every status of three digits and every type
ResPaths ==
  {ParserJoin(<<"a">>, <<L_res \o d \o TypeWords[t]>>) :
     d \in [1..3 -> Digits], t \in DOMAIN TypeWords}

\* forward targets whose path has a segment that looks like a directive, last
\* or followed by another segment
DirectiveLikeUrls ==
  {P_url \o <<"/">> \o seg \o rest :
     seg \in {L_res \o <<"4", "0", "4">> \o TypeWords.html, L_fullbody, L_tag \o <<"x">>},
     rest \in {<< >>, <<"/", "y">>}}

\* fwd:$$<url>$$ alone
BoundedUrlPaths ==
  {ParserJoin(<<"a">>, <<L_fwd \o L_dollars \o u \o L_dollars>>) : u \in DirectiveLikeUrls}

\* first segments with characters sanitizeId removes, with none it keeps and
\* with only characters it keeps; an empty first segment
IdSegments ==
  {<<".", ".">>, <<".">>, <<"a", ".", "!">>, <<".", ".", "a">>, <<"A", "_", "-", "9">>,
   <<"%", "2", "e">>, <<"!">>, << >>}

IdPaths ==
  {ParserJoin(id, segs) : id \in IdSegments, segs \in {<< >>, <<L_fullbody>>, <<<<"x">>>>}}

ParserPaths == SegmentPaths \cup OrderPaths \cup ResPaths \cup BoundedUrlPaths \cup IdPaths

ParserNext == ReceiveFrom(1, ParserPaths)

ParserSpec == Init /\ [][ParserNext]_vars


(***************************************************************************)
(* The legacy PHP handler of /webhook/<id>.  Each request is one run of    *)
(* the script, runs of several requests interleave at the blocking         *)
(* curl_exec; the appends to the endpoint's log requests_<id>.jsonl are    *)
(* whole lines (FILE_APPEND | LOCK_EX), on a file system without faults.   *)
(* An entry is the request it was built for, its response_status and what  *)
(* the proxying added to it.                                               *)
(***************************************************************************)
PhpHandle(n) ==
  /\ php[n].pc = "idle"
  /\ IF n = 1 THEN TRUE ELSE php[n - 1].pc # "idle"
  /\ \E destination \in PhpDestinations, status \in PhpStatuses :
       LET entry == [request |-> n, response_status |-> status, proxy |-> "none"]
       IN /\ requestLog' = Append(requestLog, entry)
          /\ php' = [php EXCEPT ![n] =
               IF destination = ""
               THEN [pc |-> "done", entry |-> Some(entry), http_response_code |-> status]
               ELSE [pc |-> "curl_exec", entry |-> Some(entry), http_response_code |-> 0]]
  /\ UNCHANGED <<adminVars, ioRaises, storeVars, requestVars>>

\* curl_exec returns: on a failure the 502 and the entry with proxy_error,
\* else the entry with proxied_status, appended to the log
PhpCurlExec(n) ==
  /\ php[n].pc = "curl_exec"
  /\ \E outcome \in CurlOutcomes :
       LET failed == ~outcome.ok \/ outcome.respCode = 0
           entry == [Val(php[n].entry) EXCEPT
                       !.response_status = IF failed THEN 502 ELSE outcome.respCode,
                       !.proxy = IF failed THEN "proxy_error" ELSE "proxied_status"]
       IN /\ requestLog' = Append(requestLog, entry)
          /\ php' = [php EXCEPT ![n] =
               [pc |-> "done", entry |-> Some(entry),
                http_response_code |-> IF failed THEN 502 ELSE outcome.respCode]]
  /\ UNCHANGED <<adminVars, ioRaises, storeVars, requestVars>>

\* count_requests of index.php: one fgets per line of the file until feof
RECURSIVE count_requests(_)
count_requests(file) ==
  IF file = << >> THEN 0 ELSE 1 + count_requests(Tail(file))

PhpNext ==
  \/ \E n \in PhpRequests : PhpHandle(n)
  \/ \E n \in PhpRequests : PhpCurlExec(n)

PhpSpec == Init /\ [][PhpNext]_vars

(***************************************************************************)
(* Properties of the dispatcher and of the forwarding functions.           *)
(***************************************************************************)
\* the Exchanges of request r the store holds, in MongoDB and in the files
Rows(r) ==
  {d \in requestDocs : d.rid = r}
  \cup UNION {{Val(files[id]).requests[i] :
                 i \in {j \in DOMAIN Val(files[id]).requests :
                          Val(files[id]).requests[j].rid = r}} :
              id \in {w \in WebhookIds : files[w] # None}}

\* r was rejected by the parser: an error, or no endpoint id
Rejected(r) ==
  /\ pc[r] # "idle"
  /\ ~parsedPath[r].threw
  /\ parsedPath[r].error # None \/ parsedPath[r].id = None

\* r was routed to a forwarding function
Forwarding(r) == axiosCalls[r] > 0
Synchronous(r) == Forwarding(r) /\ ~InBackground(r)
Background(r) == Forwarding(r) /\ InBackground(r)

HasEvent(r, eventName) == \E i \in DOMAIN emitted[r] : emitted[r][i].event = eventName

\* r passed the parser: a directive set without error
Accepted(r) ==
  /\ pc[r] # "idle"
  /\ ~parsedPath[r].threw
  /\ parsedPath[r].error = None
  /\ parsedPath[r].id # None

\* the status and the Content-Type of the synthesized response of r: the
\* directive's, or the defaults 200 and json
SynthStatus(r) ==
  IF hasResponseParams(r) THEN Val(parsedPath[r].responseStatus) ELSE 200
SynthContentType(r) ==
  IF ~hasResponseParams(r) THEN "application/json"
  ELSE [plain |-> "text/plain", json |-> "application/json",
        html |-> "text/html"][Val(parsedPath[r].responseType)]

\* the one response of r is the synthesized one
SynthesizedSent(r) ==
  /\ Len(sent[r]) = 1
  /\ sent[r][1].kind = "immediate"
  /\ sent[r][1].status = SynthStatus(r)
  /\ sent[r][1].contentType = SynthContentType(r)
  /\ sent[r][1].body.status = SynthStatus(r)

\* the one response of r is the 500 of the handler's catch block
InternalErrorSent(r) ==
  /\ Len(sent[r]) = 1
  /\ sent[r][1].kind = "error"
  /\ sent[r][1].status = 500

\* the forward-outcome fields of an Exchange are null
OutcomeEmpty(row) ==
  /\ row.forward_response_status = None
  /\ row.forward_response_headers = None
  /\ row.forward_response_body = None

\* the status updateRequest is given for an upstream outcome o
OutcomeStatus(o) == IF AxiosResolves(o) THEN o.status ELSE 502

\* C1: in every execution the handler and the forwarding functions write at
\* most one response to the client of a request; nothing that runs after a
\* response was sent (the outcome patch, its notification, a catch block)
\* writes a second one.
C1_AtMostOneResponse == \A r \in Rids : Len(sent[r]) <= 1

\* a synchronous forward whose response was relayed and whose patch and
\* notification have run after it
C1_Witness ==
  \E r \in Rids : /\ Synchronous(r)
                  /\ fpc[r] = "done"
                  /\ Len(sent[r]) = 1
                  /\ sent[r][1].kind = "upstream"
                  /\ HasEvent(r, "request:updated")

\* C2: under the fairness of FairSpec (every store operation and every
\* upstream call settles, the latter at the latest by its 30 s timeout),
\* every request that has arrived is eventually answered; and a synchronous
\* forward is answered only once its upstream call has settled.
C2_EventuallyAnswered ==
  /\ \A r \in Rids : (pc[r] # "idle") ~> (sent[r] # << >>)
  /\ [](\A r \in Rids : Synchronous(r) /\ sent[r] # << >> => upstream[r] # None)

\* a synchronous forward answered after its upstream call timed out
C2_Witness ==
  \E r \in Rids : /\ Synchronous(r)
                  /\ upstream[r] # None
                  /\ Val(upstream[r]).kind = "timeout"
                  /\ Len(sent[r]) = 1
                  /\ sent[r][1].status = 502

\* C3 as stated: with a response clause and a forward target, the client got
\* the synthesized response before the upstream call was issued, the stored
\* Exchange has no forward outcome before the call settles, and once the
\* background task is over the stored Exchange carries a forward outcome.
C3_OutcomeAlwaysStored ==
  \A r \in Rids :
    Accepted(r) /\ Background(r) =>
      /\ SynthesizedSent(r)
      /\ upstream[r] = None => \A row \in Rows(r) : OutcomeEmpty(row)
      /\ fpc[r] = "done" => \E row \in Rows(r) : row.forward_response_status # None

\* C3, amended: with a response clause and a forward target the client gets
\* one response: the synthesized one, sent before the upstream call is
\* issued, or the 500 of the catch block, without any upstream call, when the
\* endpoint lookup raised or the directive's status is refused.  Until the
\* call settles the stored Exchange has no forward outcome; once it has
\* settled updateRequest was called exactly once, with the upstream status
\* when axios resolved and with 502 and proxy_error when it rejected, and a
\* forward outcome the stored Exchange carries is that one.
C3_BackgroundForward ==
  \A r \in Rids :
    Accepted(r) /\ hasResponseParams(r) /\ hasForwardParams(r) =>
      /\ Len(sent[r]) <= 1
      /\ axiosCalls[r] > 0 => SynthesizedSent(r)
      /\ pc[r] = "done" =>
           \/ SynthesizedSent(r) /\ axiosCalls[r] = 1
           \/ /\ InternalErrorSent(r)
              /\ axiosCalls[r] = 0
              /\ requestEntry[r] = None \/ ~StatusCodeAccepted(SynthStatus(r))
      /\ upstream[r] = None =>
           /\ updateData[r] = << >>
           /\ \A row \in Rows(r) : OutcomeEmpty(row)
      /\ upstream[r] # None =>
           /\ Len(updateData[r]) = 1
           /\ updateData[r][1].forward_response_status =
                Some(OutcomeStatus(Val(upstream[r])))
           /\ updateData[r][1].background_forward
           /\ "response_status" \notin DOMAIN updateData[r][1]
           /\ ~AxiosResolves(Val(upstream[r])) =>
                updateData[r][1].proxy_error = AxiosErrorMessage(Val(upstream[r]))
           /\ \A row \in Rows(r) :
                \/ OutcomeEmpty(row)
                \/ row.forward_response_status = updateData[r][1].forward_response_status

\* a background forward that failed and whose 502 outcome is in the store,
\* the client having got the synthesized response
C3_Witness ==
  \E r \in Rids : /\ Background(r)
                  /\ fpc[r] = "done"
                  /\ SynthesizedSent(r)
                  /\ \E row \in Rows(r) : /\ row.forward_response_status = Some(502)
                                          /\ "proxy_error" \in DOMAIN row

\* C4: in synchronous mode, once the handler is over, an upstream call that
\* ended in an HTTP response of any status was answered with exactly that
\* response, and the 502 JSON error was sent only when the call ended
\* without an HTTP response.
C4_UpstreamRelayed ==
  \A r \in Rids :
    Synchronous(r) /\ pc[r] = "done" =>
      LET o == Val(upstream[r])
      IN IF o.kind = "http"
         THEN sent[r] = <<[status |-> o.status, kind |-> "upstream",
                           contentType |-> o.contentType,
                           body |-> [length |-> o.data, truncated |-> FALSE]]>>
         ELSE /\ Len(sent[r]) = 1
              /\ sent[r][1].status = 502
              /\ sent[r][1].kind = "error"

\* C5 as stated: in synchronous mode, an upstream call that timed out or
\* failed without an HTTP response is answered 502 with a JSON error body,
\* and the stored Exchange ends with forward_response_status 502 and a
\* proxy_error message.
C5_FailureAlwaysStored ==
  \A r \in Rids :
    /\ Synchronous(r)
    /\ pc[r] = "done"
    /\ Val(upstream[r]).kind \in {"error", "timeout"}
    => /\ Len(sent[r]) = 1
       /\ sent[r][1].status = 502
       /\ sent[r][1].contentType = "application/json"
       /\ \E row \in Rows(r) : /\ row.forward_response_status = Some(502)
                               /\ "proxy_error" \in DOMAIN row
                               /\ row.proxy_error.msg # ""

\* C5, amended: in synchronous mode, when axios rejects (timeout, network
\* error, or a status outside 2xx), updateRequest is called once with
\* forward_response_status 502, response_status 502 and the error message
\* as proxy_error, and after that call is over, whether it succeeded or not,
\* the client is answered 502 with the JSON error body carrying the same
\* message.  A forward outcome the stored Exchange carries is that one.
C5_SynchronousFailure ==
  \A r \in Rids :
    Synchronous(r) /\ upstream[r] # None /\ ~AxiosResolves(Val(upstream[r])) =>
      LET message == AxiosErrorMessage(Val(upstream[r]))
      IN /\ message.msg # ""
         /\ Len(updateData[r]) = 1
         /\ updateData[r][1].forward_response_status = Some(502)
         /\ updateData[r][1].response_status = 502
         /\ updateData[r][1].proxy_error = message
         /\ IF pc[r] = "done"
            THEN sent[r] = <<JsonError(502, "Upstream request failed", message)>>
            ELSE sent[r] = << >>
         /\ \A row \in Rows(r) :
              \/ OutcomeEmpty(row) /\ "proxy_error" \notin DOMAIN row
              \/ /\ row.forward_response_status = Some(502)
                 /\ row.response_status = 502
                 /\ row.proxy_error = message

\* a synchronous forward that timed out, answered 502, with the outcome stored
C5_Witness ==
  \E r \in Rids : /\ Synchronous(r)
                  /\ pc[r] = "done"
                  /\ Val(upstream[r]).kind = "timeout"
                  /\ \E row \in Rows(r) : row.forward_response_status = Some(502)

\* C6: a request the parser rejects is answered 400 with the JSON body
\* {ok:false, error, message, status:400} and the handler is over: no
\* requestEntry, no store call, no Exchange in the store, no upstream call,
\* no notification.
C6_ParseErrorOnlyAnswers ==
  \A r \in Rids :
    Rejected(r) =>
      /\ Len(sent[r]) = 1
      /\ sent[r][1].status = 400
      /\ sent[r][1].contentType = "application/json"
      /\ sent[r][1].body.ok = FALSE
      /\ sent[r][1].body.status = 400
      /\ sent[r][1].body.message = Val(parsedPath[r].error)
      /\ pc[r] = "done"
      /\ fpc[r] = "none"
      /\ requestEntry[r] = None
      /\ saved[r] = "no"
      /\ Rows(r) = {}
      /\ axiosCalls[r] = 0
      /\ updateData[r] = << >>
      /\ emitted[r] = << >>

\* a rejected request, while another request has been stored and forwarded
C6_Witness ==
  \E r, q \in Rids : /\ Rejected(r)
                     /\ fpc[q] = "done"
                     /\ Rows(q) # {}

\* C7 as stated: without a forward target no upstream call is issued, the
\* forward-outcome fields of the Exchange stay empty, and the client
\* receives the synthesized response, with the directive's status and type
\* or with the defaults 200 and json.
C7_AlwaysSynthesized ==
  \A r \in Rids :
    Accepted(r) /\ ~hasForwardParams(r) =>
      /\ axiosCalls[r] = 0
      /\ \A row \in Rows(r) : OutcomeEmpty(row)
      /\ pc[r] = "done" => SynthesizedSent(r)

\* C7, amended: without a forward target no upstream call is issued,
\* updateRequest is never called and the forward-outcome fields of the
\* Exchange stay empty; the client receives the synthesized response, with
\* the directive's status and type or with the defaults 200 and json,
\* unless the endpoint lookup raised or the directive's status is refused
\* (below 100), in which cases it receives the 500 of the catch block.
C7_NoForward ==
  \A r \in Rids :
    Accepted(r) /\ ~hasForwardParams(r) =>
      /\ axiosCalls[r] = 0
      /\ fpc[r] = "none"
      /\ upstream[r] = None
      /\ updateData[r] = << >>
      /\ ~HasEvent(r, "request:updated")
      /\ \A row \in Rows(r) : OutcomeEmpty(row)
      /\ pc[r] # "done" => sent[r] = << >>
      /\ pc[r] = "done" =>
           IF requestEntry[r] # None /\ StatusCodeAccepted(SynthStatus(r))
           THEN SynthesizedSent(r)
           ELSE InternalErrorSent(r)

\* a request with a response clause only, answered with the directive's
\* status and type while its Exchange is in the store
C7_Witness ==
  \E r \in Rids : /\ Accepted(r)
                  /\ ~hasForwardParams(r)
                  /\ hasResponseParams(r)
                  /\ pc[r] = "done"
                  /\ SynthesizedSent(r)
                  /\ sent[r][1].status = 404
                  /\ sent[r][1].contentType = "text/html"
                  /\ Rows(r) # {}

\* C8 as stated: in the step that issues the upstream call of a request,
\* the Exchange of that request is in the store.
C8_RowPresentAtIssue ==
  [][\A r \in Rids : axiosCalls'[r] > axiosCalls[r] => Rows(r) # {}]_vars

\* C8, amended: when the upstream call of a request is issued, synchronous
\* or background, the saveRequest call of that request is over.  It may
\* have failed: then there is no Exchange of the request in the store, no
\* 'request:new' was emitted, and the call is issued all the same.
C8_SaveSettledBeforeForward ==
  \A r \in Rids :
    axiosCalls[r] > 0 =>
      /\ saved[r] # "no"
      /\ HasEvent(r, "request:new") <=> saved[r] = "returned"
      /\ saved[r] = "threw" => Rows(r) = {}

\* a forward that went through although saveRequest had thrown
C8_Witness ==
  \E r \in Rids : /\ axiosCalls[r] > 0
                  /\ saved[r] = "threw"
                  /\ upstream[r] # None
                  /\ Rows(r) = {}

\* C9: every 'request:updated' notification of a request comes after a
\* 'request:new' notification for the same rid.
C9_NewBeforeUpdated ==
  \A r \in Rids :
    \A i \in DOMAIN emitted[r] :
      emitted[r][i].event = "request:updated" =>
        \E j \in 1..(i - 1) : /\ emitted[r][j].event = "request:new"
                              /\ emitted[r][j].payload.rid = emitted[r][i].payload.rid

\* C10: updateRequest is called at most once for a request, by the try
\* branch when axios resolved and by the catch branch when it rejected, and
\* a forward outcome found in the store for the request is the one of that
\* call.
C10_AtMostOneUpdate ==
  \A r \in Rids :
    /\ Len(updateData[r]) <= 1
    /\ Len(updateData[r]) = 1 =>
         /\ upstream[r] # None
         /\ AxiosResolves(Val(upstream[r])) <=> "proxy_error" \notin DOMAIN updateData[r][1]
    /\ \A row \in Rows(r) :
         row.forward_response_status # None =>
           /\ Len(updateData[r]) = 1
           /\ row.forward_response_status = updateData[r][1].forward_response_status

\* the update of the try branch was rejected and the forwarding function ended
C10_Witness ==
  \E r \in Rids : /\ fpc[r] = "done"
                  /\ AxiosResolves(Val(upstream[r]))
                  /\ Len(updateData[r]) = 1
                  /\ ~HasEvent(r, "request:updated")

\* C11: at most one upstream call is issued for a request, whatever its
\* outcome; it is issued by the forwarding function the request was routed
\* to, and once it has settled, with a response, a failure or a timeout, no
\* further call is issued for the request.
C11_AtMostOneUpstreamCall ==
  \A r \in Rids :
    /\ axiosCalls[r] <= 1
    /\ upstream[r] # None => axiosCalls[r] = 1
    /\ axiosCalls[r] = 1 => Accepted(r) /\ hasForwardParams(r)

\* a forward whose call timed out and whose forwarding function is over
C11_Witness ==
  \E r \in Rids : /\ fpc[r] = "done"
                  /\ upstream[r] # None
                  /\ Val(upstream[r]).kind = "timeout"
                  /\ axiosCalls[r] = 1

\* C12: the response of a background forward does not depend on the
\* upstream.  From the moment the upstream call of such a request is issued,
\* what the client has received is the one synthesized response, computed
\* from the request alone, whether the call is pending, resolved with any
\* status, failed or timed out; and two background forwards of the same
\* inbound request have received the same status, Content-Type and body
\* whatever their upstream outcomes are.
C12_BackgroundIndependent ==
  /\ \A r \in Rids :
       Background(r) =>
         sent[r] = <<sendImmediateResponse(
                       Val(parsedPath[r].responseStatus), Val(parsedPath[r].responseType),
                       [id |-> Val(parsedPath[r].id), method |-> req[r].method,
                        rawBody |-> req[r].rawBody])>>
  /\ \A r1, r2 \in Rids :
       Background(r1) /\ Background(r2) /\ req[r1] = req[r2] => sent[r1] = sent[r2]

\* two background forwards of the same inbound request, one whose upstream
\* answered 200 and one whose upstream timed out, both over
C12_Witness ==
  \E r1, r2 \in Rids :
    /\ Background(r1) /\ Background(r2)
    /\ req[r1] = req[r2]
    /\ fpc[r1] = "done" /\ fpc[r2] = "done"
    /\ Val(upstream[r1]).status = 200
    /\ Val(upstream[r2]).kind = "timeout"
    /\ sent[r1] = sent[r2]

\* C13: the handler of a background forward does not wait for the upstream
\* call.  In every state in which the call of such a request has been issued,
\* pending calls included, the handler of the request is over; and whatever
\* happens in the background task (the call failing, the patch failing) the
\* client of the request never receives a 500.
C13_HandlerDoesNotWait ==
  \A r \in Rids :
    Background(r) =>
      /\ pc[r] = "done"
      /\ \A i \in DOMAIN sent[r] : sent[r][i].status # 500

\* the handler is over and the client answered while the upstream call of
\* the request is still pending
C13_Witness ==
  \E r \in Rids : /\ Background(r)
                  /\ fpc[r] = "axios"
                  /\ upstream[r] = None
                  /\ pc[r] = "done"
                  /\ Len(sent[r]) = 1

\* the response request r gets, computed from the request and from the
\* outcome of its upstream call alone: the relayed upstream response or the
\* 502 of a synchronous forward, else the synthesized response (the 500 for
\* a status code res.status refuses)
ExpectedResponse(r) ==
  IF hasForwardParams(r) /\ ~hasResponseParams(r)
  THEN IF AxiosResolves(Val(upstream[r]))
       THEN [status |-> Val(upstream[r]).status, kind |-> "upstream",
             contentType |-> Val(upstream[r]).contentType,
             body |-> [length |-> Val(upstream[r]).data, truncated |-> FALSE]]
       ELSE JsonError(502, "Upstream request failed", AxiosErrorMessage(Val(upstream[r])))
  ELSE IF ~StatusCodeAccepted(SynthStatus(r))
  THEN JsonError(500, "Internal Server Error",
                 [msg |-> "Invalid status code", arg |-> <<SynthStatus(r)>>])
  ELSE sendImmediateResponse(SynthStatus(r),
         IF hasResponseParams(r) THEN Val(parsedPath[r].responseType) ELSE "json",
         [id |-> Val(parsedPath[r].id), method |-> req[r].method,
          rawBody |-> req[r].rawBody])

\* the updateRequest call of r is over and threw
UpdateThrew(r) ==
  fpc[r] = "done" /\ ~HasEvent(r, "request:updated")

C15_NeverBlockedByRecorder ==
  \A r \in Rids : (pc[r] # "idle") ~> (sent[r] # << >>)

\* every request of the run has completed: handlers and forwarding
\* functions are over
AllCompleted ==
  \A r \in Rids : pc[r] = "done" /\ fpc[r] \in {"none", "done"}

\* the Exchanges an endpoint's file holds
FileRids(id) ==
  IF files[id] = None THEN {}
  ELSE {Val(files[id]).requests[i].rid : i \in DOMAIN Val(files[id]).requests}

\* C16: in file-storage mode with a file system without faults (FileSpec),
\* once all requests have completed, the file of an endpoint holds the
\* Exchange of every request that was saved to it, whatever the interleaving
\* of the requests was.
C16_NoLostUpdate ==
  AllCompleted =>
    \A r \in Rids :
      saved[r] = "returned" => r \in FileRids(requestEntry[r].webhook_id)

\* C17: parseWebhookPath never raises.  For every path the handler's entry
\* gets a directive set back, and a path the parser does not accept is
\* answered 400 with the parser's error, never 500.
C17_ParserNeverRaises ==
  \A r \in Rids :
    pc[r] # "idle" =>
      /\ ~parsedPath[r].threw
      /\ \A i \in DOMAIN sent[r] :
           sent[r][i].status # 500 /\ (sent[r][i].status = 400 => parsedPath[r].error # None)

\* C18: for every path, the directive set parseWebhookPath returns has
\* responseStatus and responseType both set or both null.
C18_ResponsePairComplete ==
  \A r \in Rids :
    pc[r] # "idle" /\ ~parsedPath[r].threw =>
      (parsedPath[r].responseStatus = None <=> parsedPath[r].responseType = None)

\* a path with a well-formed res: segment next to a malformed forward
\* target: the pair is set and the error too
C18_Witness ==
  \E r \in Rids : /\ pc[r] # "idle"
                  /\ ~parsedPath[r].threw
                  /\ parsedPath[r].responseStatus = Some(404)
                  /\ parsedPath[r].responseType = Some("html")
                  /\ parsedPath[r].error # None

\* C19: for every path, a responseStatus parseWebhookPath returns is an
\* integer in 100..599.
C19_StatusInRange ==
  \A r \in Rids :
    pc[r] # "idle" /\ ~parsedPath[r].threw /\ parsedPath[r].responseStatus # None =>
      Val(parsedPath[r].responseStatus) \in 100..599

\* seg is a whole segment of path
HasSegment(path, seg) ==
  \E k \in 1..Len(path) :
    SegStart(path, k) /\ HasAt(path, k, seg) /\ SegEnd(path, k + Len(seg))

\* the segments of path that begin with res:
ResSegments(path) ==
  {k \in 1..Len(path) : SegStart(path, k) /\ HasAt(path, k, L_res)}

\* C20: a path with a valid id whose one res: segment is res:404xml, a type
\* that is none of plain, json and html, gets a directive set with an error
\* and without responseStatus and responseType, and the request is answered
\* 400.
C20_UnknownTypeRejected ==
  \A r \in Rids :
    /\ pc[r] # "idle"
    /\ ~parsedPath[r].threw
    /\ parsedPath[r].id # None
    /\ HasSegment(req[r].path, L_res \o <<"4", "0", "4", "x", "m", "l">>)
    /\ Cardinality(ResSegments(req[r].path)) = 1
    => /\ parsedPath[r].error # None
       /\ parsedPath[r].responseStatus = None
       /\ parsedPath[r].responseType = None
       /\ Len(sent[r]) = 1
       /\ sent[r][1].status = 400

\* the one element of a set that has one, None for any other set
TheOne(S) == IF Cardinality(S) = 1 THEN Some(CHOOSE x \in S : TRUE) ELSE None

\* the directive set the segments of an OrderPaths path stand for, whatever
\* their order: the URL between the delimiters, the pair of the res: segment,
\* fullbody:true, the decoded tag
OrderDirectives(path) ==
  [id |-> Some(<<"a">>),
   responseStatus |->
     IF HasSegment(path, L_res \o <<"4", "0", "4">> \o TypeWords.html) THEN Some(404)
     ELSE IF HasSegment(path, L_res \o <<"2", "0", "0">> \o TypeWords.json) THEN Some(200)
     ELSE None,
   responseType |->
     IF HasSegment(path, L_res \o <<"4", "0", "4">> \o TypeWords.html) THEN Some("html")
     ELSE IF HasSegment(path, L_res \o <<"2", "0", "0">> \o TypeWords.json) THEN Some("json")
     ELSE None,
   forwardUrl |->
     TheOne({u \in OrderUrls : HasSegment(path, L_fwd \o L_dollars \o u \o L_dollars)}),
   fullBody |-> HasSegment(path, L_fullbody),
   tag |-> IF HasSegment(path, L_tag \o <<"a", "b">>) THEN Some(<<"a", "b">>)
           ELSE IF HasSegment(path, L_tag \o <<"%", "4", "1">>) THEN Some(<<"A">>)
           ELSE None,
   error |-> None,
   threw |-> FALSE]

FwdSegments(path) ==
  {k \in 1..Len(path) : SegStart(path, k) /\ HasAt(path, k, L_fwd)}

\* C22: a path with a valid id and a fwd: segment is never parsed as if it
\* had no forward directive: either forwardUrl is set, to a URL whose scheme
\* is http or https, or the error is set and the request is answered 400.
C22_BadForwardRejected ==
  \A r \in Rids :
    /\ pc[r] # "idle"
    /\ ~parsedPath[r].threw
    /\ parsedPath[r].id # None
    /\ FwdSegments(req[r].path) # {}
    => IF parsedPath[r].forwardUrl # None
       THEN UrlProtocol(Val(parsedPath[r].forwardUrl)) \in {Some(L_http), Some(L_https)}
       ELSE /\ parsedPath[r].error # None
            /\ Len(sent[r]) = 1
            /\ sent[r][1].status = 400

\* the number a decimal digit stands for
DigitValue(c) ==
  CASE c = "0" -> 0 [] c = "1" -> 1 [] c = "2" -> 2 [] c = "3" -> 3 [] c = "4" -> 4
    [] c = "5" -> 5 [] c = "6" -> 6 [] c = "7" -> 7 [] c = "8" -> 8 [] c = "9" -> 9

\* where the status of a ResPaths path begins: behind /webhook/a/res:
ResPathStatusAt == Len(L_webhook) + 2 + Len(L_res) + 1

\* C23: for every status of three digits and every type of plain, json and
\* html, the path whose only directive is res:<status><type> is parsed to
\* exactly that status and type, with a null error, a null forwardUrl,
\* fullBody false and a null tag.
C23_ResExact ==
  \A r \in Rids :
    pc[r] # "idle" /\ req[r].path \in ResPaths =>
      parsedPath[r] =
        [id |-> Some(<<"a">>),
         responseStatus |->
           Some(100 * DigitValue(req[r].path[ResPathStatusAt])
                + 10 * DigitValue(req[r].path[ResPathStatusAt + 1])
                + DigitValue(req[r].path[ResPathStatusAt + 2])),
         responseType |->
           Some(CHOOSE t \in DOMAIN TypeWords :
                  From(req[r].path, ResPathStatusAt + 3) = TypeWords[t]),
         forwardUrl |-> None,
         fullBody |-> FALSE,
         tag |-> None,
         error |-> None,
         threw |-> FALSE]

\* res:207plain alone
C23_Witness ==
  \E r \in Rids :
    /\ pc[r] # "idle"
    /\ req[r].path = ParserJoin(<<"a">>, <<L_res \o <<"2", "0", "7">> \o TypeWords.plain>>)
    /\ parsedPath[r].responseStatus = Some(207)
    /\ parsedPath[r].responseType = Some("plain")
    /\ parsedPath[r].error = None

\* the content types of TruncContentTypes that contain application/json
JsonContentTypes == {"application/json", "application/json; charset=utf-8"}

\* the forward_response_body the truncation rule asks for, a body being its
\* number of characters: from the path and the upstream answer of r
ExpectedStoredBody(r) ==
  IF /\ ~HasSegment(req[r].path, L_fullbody)
     /\ Val(upstream[r]).contentType \notin JsonContentTypes
     /\ Val(upstream[r]).data > 1000
  THEN [length |-> 1000, truncated |-> TRUE]
  ELSE [length |-> Val(upstream[r]).data, truncated |-> FALSE]

\* C24: the forward_response_body of the patch, and of every Exchange the
\* patch was applied to, is the first 1000 characters of the upstream body
\* plus the marker exactly when fullBody is false, the upstream content type
\* does not contain application/json and the body is longer than 1000; in
\* every other case, a body of exactly 1000 included, it is the upstream body
\* unchanged.  The rule is the same in synchronous and in background mode.
C24_TruncationRule ==
  \A r \in Rids :
    upstream[r] # None /\ AxiosResolves(Val(upstream[r])) =>
      /\ \A i \in DOMAIN updateData[r] :
           updateData[r][i].forward_response_body = Some(ExpectedStoredBody(r))
      /\ \A row \in Rows(r) :
           row.forward_response_body \in {None, Some(ExpectedStoredBody(r))}

\* a background forward whose upstream answered 1001 characters of text/plain,
\* stored cut to 1000 characters
C24_Witness ==
  \E r \in Rids :
    /\ fpc[r] = "done"
    /\ Background(r)
    /\ ~parsedPath[r].fullBody
    /\ Val(upstream[r]).data = 1001
    /\ Val(upstream[r]).contentType = "text/plain"
    /\ \E row \in Rows(r) :
         row.forward_response_body = Some([length |-> 1000, truncated |-> TRUE])

\* the nine header names of the stripping, as the specification lists them
StrippedNames ==
  {"connection", "keep-alive", "proxy-authenticate", "proxy-authorization", "te",
   "trailers", "transfer-encoding", "upgrade", "host"}

\* out is h without the stripped names, every other header unchanged
StrippedCopy(h, out) ==
  /\ DOMAIN out \cap StrippedNames = {}
  /\ \A n \in DOMAIN h : n \notin StrippedNames => n \in DOMAIN out /\ out[n] = h[n]
  /\ DOMAIN out \subseteq DOMAIN h

\* C25: the headers sent upstream, and the forward_request_headers of the
\* patch on success and on failure and of every Exchange it was applied to,
\* contain none of the nine stripped names and every other inbound header
\* unchanged; the headers field of the Exchange is the inbound headers, host
\* included.
C25_HeadersStripped ==
  \A r \in Rids :
    /\ axiosCalls[r] > 0 => StrippedCopy(req[r].headers, axiosConfig(r).headers)
    /\ \A i \in DOMAIN updateData[r] :
         StrippedCopy(req[r].headers, updateData[r][i].forward_request_headers)
    /\ \A row \in Rows(r) :
         /\ row.headers = req[r].headers
         /\ "forward_request_headers" \in DOMAIN row =>
              StrippedCopy(req[r].headers, row.forward_request_headers)

\* a request with host and x-a whose upstream call failed: the Exchange keeps
\* both in headers and records x-a alone as sent upstream
C25_Witness ==
  \E r \in Rids :
    /\ fpc[r] = "done"
    /\ ~AxiosResolves(Val(upstream[r]))
    /\ DOMAIN req[r].headers = {"host", "x-a"}
    /\ \E row \in Rows(r) :
         /\ "forward_request_headers" \in DOMAIN row
         /\ DOMAIN row.forward_request_headers = {"x-a"}
         /\ row.forward_request_headers["x-a"] = req[r].headers["x-a"]
         /\ DOMAIN row.headers = {"host", "x-a"}

\* request r has been fully processed: its handler and its forwarding
\* function are over
FullyProcessed(r) == pc[r] = "done" /\ fpc[r] \in {"none", "done"}

\* C26: once a request has been fully processed and has been answered, the
\* response_status of its Exchange is the HTTP status the client received,
\* whether the answer is the synthesized response, the relayed upstream
\* answer, the 502 of a failed synchronous forward or the 500 of an internal
\* error.
C26_StoredStatusIsSent ==
  \A r \in Rids :
    FullyProcessed(r) /\ Len(sent[r]) = 1 =>
      \A row \in Rows(r) : row.response_status = sent[r][1].status

\* the app.emitRequestEvent calls of request r for eventName
EventsOf(r, eventName) == {i \in DOMAIN emitted[r] : emitted[r][i].event = eventName}

BoundedUrlOf(path) ==
  CHOOSE u \in DirectiveLikeUrls :
    path = ParserJoin(<<"a">>, <<L_fwd \o L_dollars \o u \o L_dollars>>)

\* C28: the text between the $$ delimiters contributes to forwardUrl alone.
\* A path whose only segment is fwd:$$<url>$$, the url having a segment that
\* looks like a directive (/res:404html, /fullbody:true, /tag:x), is parsed to
\* that forwardUrl with no response clause, fullBody false and no tag, which
\* is what dispatches it in synchronous mode.
C28_BoundedUrlOpaque ==
  \A r \in Rids :
    pc[r] # "idle" /\ req[r].path \in BoundedUrlPaths =>
      parsedPath[r] =
        [id |-> Some(<<"a">>),
         responseStatus |-> None,
         responseType |-> None,
         forwardUrl |-> Some(BoundedUrlOf(req[r].path)),
         fullBody |-> FALSE,
         tag |-> None,
         error |-> None,
         threw |-> FALSE]

\* the keyword a segment begins with: res:, tag:, fwd:, full
Keyword(seg) == SubSeq(seg, 1, Min({4, Len(seg)}))

\* seg is a bounded forward segment fwd:$$...$$
IsBounded(seg) == HasAt(seg, 1, L_fwd \o L_dollars) /\ Len(seg) >= 8

\* the pairs of segments with the same keyword
TwinSegments ==
  {x \in ParserSegments \X ParserSegments :
     Keyword(x[1]) = Keyword(x[2]) /\ Keyword(x[1]) \in {L_res, L_tag, L_fwd, <<"f", "u", "l", "l">>}}

\* the parse of the path with the segments s1 and s2 keeps, for their
\* keyword, what the parse of the path with one alone gives
UsesOnly(s1, s2, one) ==
  LET both == parseWebhookPath(ParserJoin(<<"a">>, <<s1, s2>>))
      alone == parseWebhookPath(ParserJoin(<<"a">>, <<one>>))
  IN IF Keyword(one) = L_fwd /\ ~IsBounded(s1) /\ ~IsBounded(s2)
     THEN \* two legacy segments: the url of the first runs over the second
          /\ both.threw = alone.threw
          /\ (both.forwardUrl = None) = (alone.forwardUrl = None)
          /\ both.forwardUrl # None =>
               HasAt(Val(both.forwardUrl), 1, Val(alone.forwardUrl))
     ELSE both = alone

\* C29: at most one forward target and one response clause are honored.  Of
\* a bounded and a legacy forward segment the bounded one is used whatever
\* their order; of two segments with the same keyword the first is the one
\* used, the second changing nothing.
C29_FirstOccurrenceWins ==
  \A r \in Rids : \A x \in TwinSegments :
    pc[r] # "idle" /\ req[r].path = ParserJoin(<<"a">>, <<x[1], x[2]>>) =>
      /\ parsedPath[r] = parseWebhookPath(req[r].path)
      /\ UsesOnly(x[1], x[2],
                  IF Keyword(x[1]) = L_fwd /\ IsBounded(x[2]) /\ ~IsBounded(x[1])
                  THEN x[2] ELSE x[1])

\* the legacy forward segment fwd:http://u
LegacySegment == L_fwd \o P_url

\* the segments that can follow it in the legacy form: all but the bounded
\* forward segments, which are used in its place
FollowingSegments == {s \in ParserSegments : ~IsBounded(s)}

\* segment s alone is parsed as a directive: it sets the response, fullBody
\* or the tag
Interpreted(s) ==
  LET alone == parseWebhookPath(ParserJoin(<<"a">>, <<s>>))
  IN alone.responseStatus # None \/ alone.fullBody \/ alone.tag # None

\* C30: in the legacy form the forward URL is cut at the following segment
\* if and only if that segment is parsed as a directive.  For the path
\* fwd:http://u/<segment>, when the segment sets the response, fullBody or
\* the tag the URL is http://u, and when it does not the URL is
\* http://u/<segment>: no text is dropped without being interpreted.
C30_CutIffDirective ==
  \A r \in Rids : \A s \in FollowingSegments :
    /\ pc[r] # "idle"
    /\ req[r].path = ParserJoin(<<"a">>, <<LegacySegment, s>>)
    /\ ~parsedPath[r].threw
    => parsedPath[r].forwardUrl =
         IF Interpreted(s) THEN Some(P_url) ELSE Some(P_url \o <<"/">> \o s)

\* the upstream call of r was issued and rejected
ForwardFailed(r) ==
  Forwarding(r) /\ upstream[r] # None /\ ~AxiosResolves(Val(upstream[r]))

\* C31 as stated: on a forwarding failure, once the forwarding function is
\* over, the Exchange carries forward_response_status 502 and a
\* forward_response_body equal to the error message.
C31_FailureBodyIsMessage ==
  \A r \in Rids :
    ForwardFailed(r) /\ fpc[r] = "done" /\ saved[r] = "returned" =>
      \E row \in Rows(r) :
        /\ row.forward_response_status = Some(502)
        /\ row.forward_response_body = Some(AxiosErrorMessage(Val(upstream[r])))

\* C31, amended: on a forwarding failure, in both modes, updateRequest is
\* called once with the fixed outcome: forward_response_status 502,
\* proxy_error the error message, forward_response_body the text 'Error: '
\* followed by that message, no forward response headers and no forward
\* response timestamp, with the method, URL, stripped headers and body of the
\* attempted upstream request; the patch of a background forward has no
\* response_status, that of a synchronous forward has 502.  An Exchange of
\* the request in the store is the Exchange as created or as created and
\* patched with exactly that.
C31_FailureOutcome ==
  \A r \in Rids :
    ForwardFailed(r) =>
      LET message == AxiosErrorMessage(Val(upstream[r]))
          patch == updateData[r][1]
      IN /\ Len(updateData[r]) = 1
         /\ patch.forward_response_status = Some(502)
         /\ patch.proxy_error = message
         /\ patch.forward_response_body = Some([error |-> message])
         /\ "forward_response_headers" \notin DOMAIN patch
         /\ "forward_response_timestamp" \notin DOMAIN patch
         /\ patch.forward_request_method = req[r].method
         /\ patch.forward_request_url = Val(parsedPath[r].forwardUrl)
         /\ patch.forward_request_body = req[r].rawBody
         /\ patch.forward_request_headers =
              [n \in DOMAIN req[r].headers \ StrippedNames |-> req[r].headers[n]]
         /\ IF InBackground(r)
            THEN "response_status" \notin DOMAIN patch /\ patch.background_forward
            ELSE patch.response_status = 502
         /\ \A row \in Rows(r) :
              \/ row = requestEntry[r]
              \/ /\ row = Merge(requestEntry[r], patch)
                 /\ row.forward_response_headers = None
                 /\ InBackground(r) => row.response_status = requestEntry[r].response_status

\* a background forward whose upstream call timed out, its Exchange patched
\* with 502 and still carrying the status of the response clause
C31_Witness ==
  \E r \in Rids :
    /\ Background(r)
    /\ fpc[r] = "done"
    /\ Val(upstream[r]).kind = "timeout"
    /\ \E row \in Rows(r) :
         /\ row.forward_response_status = Some(502)
         /\ row.forward_response_body = Some([error |-> Msg("timeout of 30000ms exceeded")])
         /\ row.response_status = Val(parsedPath[r].responseStatus)

\* an exception was raised in the handler of r: by the parser, by
\* findWebhookById, or by the response writer refusing the status code
HandlerRaised(r) ==
  /\ pc[r] = "done"
  /\ \/ parsedPath[r].threw
     \/ Accepted(r) /\ requestEntry[r] = None
     \/ /\ Accepted(r) /\ requestEntry[r] # None
        /\ ~(hasForwardParams(r) /\ ~hasResponseParams(r))
        /\ ~StatusCodeAccepted(SynthStatus(r))

\* C32: an exception raised in the handler before a response was sent is
\* answered, by the handler's catch block, with 500 and the JSON body
\* {ok:false, error:'Internal Server Error', message, status:500}, and that
\* is the only response of the request; a 500 is never a second response.
C32_InternalErrorAnswered ==
  \A r \in Rids :
    /\ HandlerRaised(r) =>
         /\ Len(sent[r]) = 1
         /\ sent[r][1].status = 500
         /\ sent[r][1].contentType = "application/json"
         /\ sent[r][1].body.ok = FALSE
         /\ sent[r][1].body.error = "Internal Server Error"
         /\ sent[r][1].body.status = 500
         /\ sent[r][1].body.message.msg # ""
    /\ \A i \in DOMAIN sent[r] : sent[r][i].status = 500 => i = 1
    /\ pc[r] = "done" => sent[r] # << >>

\* the parser raised on tag:% and the client got the 500
C32_Witness ==
  \E r \in Rids :
    /\ pc[r] = "done"
    /\ parsedPath[r].threw
    /\ sent[r] = <<JsonError(500, "Internal Server Error", Msg("URI malformed"))>>

\* C33: truncation affects the stored record alone.  In synchronous mode the
\* client is sent the upstream status, content type and complete body, with
\* and without fullbody:true, whatever forward_response_body is stored.
C33_ClientBodyComplete ==
  \A r \in Rids :
    Synchronous(r) /\ upstream[r] # None /\ AxiosResolves(Val(upstream[r])) =>
      sent[r] = <<[status |-> Val(upstream[r]).status, kind |-> "upstream",
                   contentType |-> Val(upstream[r]).contentType,
                   body |-> [length |-> Val(upstream[r]).data, truncated |-> FALSE]]>>

\* a synchronous forward of 5000 characters of text/html: the Exchange holds
\* the first 1000 and the marker, the client got all 5000
C33_Witness ==
  \E r \in Rids :
    /\ Synchronous(r)
    /\ fpc[r] = "done"
    /\ Val(upstream[r]).data = 5000
    /\ \E row \in Rows(r) :
         row.forward_response_body = Some([length |-> 1000, truncated |-> TRUE])
    /\ sent[r][1].body = [length |-> 5000, truncated |-> FALSE]

\* C34: in file-storage mode with a file system without faults (FileSpec),
\* the write of a Forward Outcome patch changes the Exchange it names and no
\* other: every Exchange of another request is in the store after the write
\* as it was before; and the write that creates an Exchange leaves every
\* patched Exchange of another request in the store.
C34_PatchTouchesOnlyItsExchange ==
  [][\A r \in Rids :
       /\ fpc[r] = "writeFile" /\ files' # files =>
            \A other \in Rids \ {r} : Rows(other)' = Rows(other)
       /\ pc[r] = "saveRequestWrite" /\ files' # files =>
            \A other \in Rids \ {r} :
              {row \in Rows(other) : row.forward_response_status # None}
                \subseteq Rows(other)']_vars

\* the endpoint record and the Exchanges the store holds for DeletedId
EndpointPresent == DeletedId \in webhookDocs \/ files[DeletedId] # None

DeletedIdRids == FileRids(DeletedId) \cup {d.rid : d \in {e \in requestDocs : e.webhook_id = DeletedId}}

\* C35: endpoint deletion is final with respect to in-flight work.  Once
\* deleteWebhook and deleteRequests have completed for the endpoint, no step
\* of a forward-outcome patch (updateRequest of the request in flight) makes
\* the endpoint's record reappear in the store or adds an Exchange of the
\* endpoint to it.
C35_DeletionIsFinal ==
  [][\A r \in Rids :
       deletion.pc = "done" /\ fpc[r] \in {"updateOne", "readFile", "writeFile"} =>
         /\ EndpointPresent' => EndpointPresent
         /\ DeletedIdRids' \subseteq DeletedIdRids]_vars

\* the endpoints the store holds
Endpoints == webhookDocs \cup {id \in StoreIds : files[id] # None}

\* C36: creating an endpoint never reuses the id of an existing endpoint and
\* never overwrites an existing endpoint's record or its Exchanges.  The step
\* of a creation that saves its endpoint (saveWebhook returning) is taken
\* with an id no endpoint of the store has, and leaves the record and the
\* Exchanges of every endpoint the store had as they were.
C36_CreationKeepsEndpoints ==
  [][\A c \in Creations :
       creation[c].pc = "saveWebhook" /\ creation'[c].pc = "done" =>
         /\ Val(creation[c].id) \notin Endpoints
         /\ \A id \in Endpoints : files'[id] = files[id] /\ id \in Endpoints']_vars

\* the store holds the Exchange of r with a forward outcome
PatchedInStore(r) == \E row \in Rows(r) : row.forward_response_status # None

\* C37: a 'request:updated' notification is emitted only when the store
\* holds the patched Exchange.  The step that emits 'request:updated' for a
\* request leaves the store with the Exchange of that rid carrying the
\* forward outcome; when updateRequest found no Exchange with the rid (never
\* saved, or its endpoint deleted meanwhile) no such step is taken.
C37_UpdatedOnlyWhenPatched ==
  [][\A r \in Rids :
       HasEvent(r, "request:updated")' /\ ~HasEvent(r, "request:updated") =>
         PatchedInStore(r)']_vars

\* the first segment of the path of r behind /webhook/, as the client sent it
FirstSegment(r) ==
  LET cleanPath == From(req[r].path, Len(L_webhook) + 1)
      slashes == {i \in 1..Len(cleanPath) : cleanPath[i] = "/"}
  IN IF slashes = {} THEN cleanPath
     ELSE SubSeq(cleanPath, 1, CHOOSE i \in slashes : \A j \in slashes : i <= j) \o << >>

\* the characters of s that are letters, digits, '_' or '-', in their order
RECURSIVE KeptChars(_)
KeptChars(s) ==
  IF s = << >> THEN << >>
  ELSE IF Head(s) \in Letters \cup Digits \cup {"_", "-"}
  THEN <<Head(s)>> \o KeptChars(Tail(s))
  ELSE KeptChars(Tail(s))

\* C38: every directive set parseWebhookPath returns without an error has an
\* id that is non-empty and made of characters of [A-Za-z0-9_-] only: it is
\* the first path segment without its other characters.  A path whose first
\* segment has none of these characters is rejected with 'Invalid webhook
\* ID'.  The storage file of an accepted id is the file <id>.json directly
\* inside the storage directory.
C38_IdIsSafe ==
  \A r \in Rids :
    pc[r] # "idle" /\ ~parsedPath[r].threw =>
      /\ parsedPath[r].error = None =>
           /\ parsedPath[r].id # None
           /\ Val(parsedPath[r].id) # << >>
           /\ \A i \in DOMAIN Val(parsedPath[r].id) :
                Val(parsedPath[r].id)[i] \in Letters \cup Digits \cup {"_", "-"}
           /\ Val(parsedPath[r].id) = KeptChars(FirstSegment(r))
           /\ webhookFilePath(Val(parsedPath[r].id))
                = Append(storageDir, Val(parsedPath[r].id) \o L_json)
      /\ Len(req[r].path) > Len(L_webhook) /\ KeptChars(FirstSegment(r)) = << >> =>
           /\ parsedPath[r].id = None
           /\ parsedPath[r].error = Some(Msg("Invalid webhook ID"))
           /\ Len(sent[r]) = 1 /\ sent[r][1].status = 400

\* a request whose first segment ..a lost its dots was accepted with the id a
C38_Witness ==
  /\ pc[1] # "idle"
  /\ parsedPath[1].error = None /\ ~parsedPath[1].threw
  /\ FirstSegment(1) = <<".", ".", "a">>
  /\ parsedPath[1].id = Some(<<"a">>)

\* the endpoint record saveRequest writes for an id that has no file
Placeholder(id) ==
  [id |-> id, status |-> 200, content_type |-> "text/html", destination |-> ""]

\* C39: a request to an endpoint id that was never created is handled like
\* any other.  The lookup of the endpoint never ends the request (only a
\* rejected MongoDB query does, with 500); the step that stores the Exchange
\* stores it whether or not the store holds the endpoint, and in
\* file-storage mode a missing file is written with a placeholder endpoint
\* record, so that the endpoints of the store grow by the id; the request is
\* forwarded exactly when it has a forward target and the client gets the
\* response of the decision matrix.
C39_UnknownEndpointHandled ==
  [][\A r \in Rids :
       /\ pc[r] = "findWebhookById" /\ pc'[r] # pc[r] =>
            \/ pc'[r] = "saveRequest"
            \/ mongoConnected /\ pc'[r] = "done" /\ InternalErrorSent(r)'
       /\ pc[r] = "saveRequest" /\ pc'[r] # pc[r] /\ requestDocs' # requestDocs =>
            /\ requestDocs' = requestDocs \cup {requestEntry[r]}
            /\ webhookDocs' = webhookDocs
       /\ pc[r] = "saveRequestWrite" /\ pc'[r] # pc[r] /\ files' # files =>
            /\ r \in FileRids(requestEntry[r].webhook_id)'
            /\ Endpoints' = Endpoints \cup {requestEntry[r].webhook_id}
            /\ parsed[r] = None =>
                 /\ Val(files'[requestEntry[r].webhook_id]).webhook
                      = Placeholder(requestEntry[r].webhook_id)
                 /\ FileRids(requestEntry[r].webhook_id)' = {r}
       /\ saved[r] # "no" /\ pc[r] # "done" /\ pc'[r] = "done" =>
            (axiosCalls'[r] > 0 <=> hasForwardParams(r))
       /\ saved[r] # "no" /\ sent[r] = << >> /\ sent'[r] # << >> =>
            sent'[r] = <<ExpectedResponse(r)'>>]_vars

\* no endpoint was ever created; in file-storage mode a request with a
\* forward target to the id a was stored, forwarded and answered, and the
\* store now holds a placeholder endpoint a with the Exchange
C39_Witness ==
  /\ \A c \in Creations : creation[c].pc = "idle"
  /\ ~mongoConnected /\ webhookDocs = {}
  /\ FullyProcessed(1) /\ hasForwardParams(1) /\ axiosCalls[1] > 0
  /\ sent[1] = <<ExpectedResponse(1)>>
  /\ Endpoints = {<<"a">>}
  /\ Val(files[<<"a">>]).webhook = Placeholder(<<"a">>)
  /\ FileRids(<<"a">>) = {1}

\* the lines of the log that request n of the PHP handler contributed
LinesOf(n) == {i \in DOMAIN requestLog : requestLog[i].request = n}

\* C40: in the legacy PHP handler each inbound request contributes exactly
\* one line to the endpoint's request log, so that once the runs are over
\* the request count of the index page is the number of requests received,
\* with or without a destination and whether the forward succeeded or not.
C40_OneLinePerRequest ==
  /\ \A n \in PhpRequests :
       php[n].pc = "done" => Cardinality(LinesOf(n)) = 1
  /\ (\A n \in PhpRequests : php[n].pc \in {"idle", "done"}) =>
       count_requests(requestLog) = Cardinality({n \in PhpRequests : php[n].pc = "done"})

====
